---------------------------- MODULE Spec2Model ----------------------------
(***************************************************************************)
(* Quiz assessment engine: the server's attempt lifecycle (the attempts    *)
(* router of src/server/routes/auth.ts), the server and client scoring     *)
(* functions (scoreAttempt of src/unnamed/part_003, scoreQuiz of           *)
(* src/src/utils/quiz.test.ts), and the client quiz runner with its        *)
(* countdown (QuizRunner of src/src/App.tsx, useCountdown of               *)
(* src/unnamed/part_000), and the validation of quiz documents by the      *)
(* client's and the server's quizSchema (src/src/utils/quiz.test.ts,       *)
(* src/server/index.ts).                                                   *)
(*                                                                         *)
(* Specifications:                                                         *)
(*   Spec            the server's attempt API, one request at a time       *)
(*   ConcSpec        submit handlers whose awaited queries interleave      *)
(*   ScoreSpec       the two scoring functions applied to drawn inputs     *)
(*   RunnerSpec      the client quiz runner driving the server             *)
(*   FairRunnerSpec  RunnerSpec with the countdown interval firing         *)
(*   PercentSpec     the scoring functions over every total up to MaxScore *)
(*   GradeSpec       the scoring functions on every schema-valid question  *)
(*   NormalizeSpec   normalizeQuiz under every outcome of the shuffle      *)
(*   ValidateSpec    validateQuiz and the server's quizSchema on documents *)
(*   ManageSpec      the quizzes router: create, update, publish, read     *)
(*   StartSpec       start handlers whose awaited queries interleave       *)
(*   AccessSpec      the attempt API with the detail and listing requests  *)
(*   SummarySpec     the summary of drawn sets of attempt rows             *)
(*   CountdownSpec   the hook useCountdown under renders and seconds       *)
(*   ConcAnswerSpec  ConcSpec's steps with answer requests in between      *)
(*   ResultsSpec     the attempt API with the owner's PUT and publish      *)
(*   RetrySpec       the quiz runner with room for a second attempt        *)
(***************************************************************************)
EXTENDS Integers, Sequences, FiniteSets, Bags, TLC

VARIABLES
  now,         \* server clock, in seconds (NOW(), Date.now())
  quizzes,     \* table quizzes: quiz id -> row
  questions,   \* table questions: quiz id -> rows ordered by order_index
  attempts,    \* table attempts: the rows in order of creation, attempt id -> row
  answers,     \* table answers: a bag of rows
  audit_logs,  \* table audit_logs: the set of <<action_type, entity_id>> written
  res,         \* the last HTTP response sent: operation, status, error code
  reqs,        \* ConcSpec: the submit handlers in flight, request -> local state
  runner,      \* RunnerSpec: the QuizRunner component's state
  sc           \* the drawn input of the pure functions and their results;
               \* CountdownSpec: the hook's state; ResultsSpec: the question ids given out

vars == <<now, quizzes, questions, attempts, answers, audit_logs, res, reqs, runner, sc>>

(***************************************************************************)
(* Bounds of the model.                                                    *)
(***************************************************************************)
MaxAttempts == 1
MaxTime == 1
MaxQuestions == 2
MaxTimeLimit == 1
MaxRequests == 2
MaxScore == 40

\* passingScore: z.number().min(0).max(100)
MaxPassingScore == 100

\* SQL NULL / JS undefined for a numeric column or an optional number.
NULL == -1

(***************************************************************************)
(* JavaScript values of an answer: string | string[] | boolean | null, and *)
(* undefined for a key the map does not hold.  A string is a sequence of   *)
(* characters; every value is a record of the same shape so that values    *)
(* of different types can be compared.                                     *)
(***************************************************************************)
Undef == [t |-> "undef", b |-> FALSE, s |-> <<>>, a |-> <<>>]
Null == [t |-> "null", b |-> FALSE, s |-> <<>>, a |-> <<>>]
Bool(x) == [t |-> "bool", b |-> x, s |-> <<>>, a |-> <<>>]
Str(x) == [t |-> "str", b |-> FALSE, s |-> x, a |-> <<>>]
Arr(x) == [t |-> "arr", b |-> FALSE, s |-> <<>>, a |-> x]

\* a ?? b
Coalesce(v, d) == IF v.t \in {"undef", "null"} THEN d ELSE v

\* a === b: arrays are objects, equal only to themselves, and an answer
\* array is never the same object as a value stored in the quiz.
StrictEq(x, y) == x.t = y.t /\ x.t # "arr" /\ x = y

\* UTF-16 code unit of a character (the order Array.prototype.sort uses).
CharCode(c) ==
  CASE c = " " -> 32
    [] c = "," -> 44
    [] c = "A" -> 65
    [] c = "B" -> 66
    [] c = "C" -> 67
    [] c = "a" -> 97
    [] c = "b" -> 98
    [] c = "c" -> 99
    [] c = "e" -> 101
    [] c = "f" -> 102
    [] c = "l" -> 108
    [] c = "r" -> 114
    [] c = "s" -> 115
    [] c = "t" -> 116
    [] c = "u" -> 117

LowerChar(c) ==
  CASE c = "A" -> "a"
    [] c = "B" -> "b"
    [] c = "C" -> "c"
    [] OTHER -> c

\* String.prototype.toLowerCase
toLowerCase(s) == [i \in 1..Len(s) |-> LowerChar(s[i])]

RECURSIVE TrimStart(_)
TrimStart(s) == IF s # <<>> /\ Head(s) = " " THEN TrimStart(Tail(s)) ELSE s

RECURSIVE TrimEnd(_)
TrimEnd(s) ==
  IF s # <<>> /\ s[Len(s)] = " " THEN TrimEnd(SubSeq(s, 1, Len(s) - 1)) ELSE s

\* String.prototype.trim
trim(s) == TrimEnd(TrimStart(s))

\* s < t in code-unit order
RECURSIVE StrLess(_, _)
StrLess(s, t) ==
  IF t = <<>> THEN FALSE
  ELSE IF s = <<>> THEN TRUE
  ELSE IF Head(s) = Head(t) THEN StrLess(Tail(s), Tail(t))
  ELSE CharCode(Head(s)) < CharCode(Head(t))

RECURSIVE InsertSorted(_, _)
InsertSorted(x, xs) ==
  IF xs = <<>> THEN <<x>>
  ELSE IF StrLess(Head(xs), x) \/ Head(xs) = x THEN <<Head(xs)>> \o InsertSorted(x, Tail(xs))
  ELSE <<x>> \o xs

\* [...xs].sort() on an array of strings
RECURSIVE sort(_)
sort(xs) == IF xs = <<>> THEN <<>> ELSE InsertSorted(Head(xs), sort(Tail(xs)))

RECURSIVE Join(_)
Join(xs) ==
  IF xs = <<>> THEN <<>>
  ELSE IF Len(xs) = 1 THEN xs[1]
  ELSE xs[1] \o <<",">> \o Join(Tail(xs))

\* String(v)
String(v) ==
  CASE v.t = "str" -> v.s
    [] v.t = "bool" -> IF v.b THEN <<"t", "r", "u", "e">> ELSE <<"f", "a", "l", "s", "e">>
    [] v.t = "arr" -> Join(v.a)
    [] OTHER -> <<>>

RECURSIVE SumSeq(_)
SumSeq(xs) == IF xs = <<>> THEN 0 ELSE Head(xs) + SumSeq(Tail(xs))

\* n / d rounded to the nearest integer, halves up, for n >= 0, d > 0
RoundDiv(n, d) == (2 * n + d) \div (2 * d)

(***************************************************************************)
(* JavaScript numbers are IEEE 754 doubles.  A positive double is kept as  *)
(* its 53 significant bits, a leading 1 followed by the fields a, b and c  *)
(* (18, 18 and 16 bits wide), scaled by 2^exp.                             *)
(***************************************************************************)
Double(a, b, c, exp) == [a |-> a, b |-> b, c |-> c, exp |-> exp]

\* round to nearest, ties to even: the 53 bits of x were followed by the
\* bit guard and, if sticky, by further non-zero bits
RoundToDouble(x, guard, sticky) ==
  IF guard = 1 /\ (sticky \/ (x.c % 2) = 1)
  THEN IF x.c + 1 < (2^16) THEN [x EXCEPT !.c = @ + 1]
       ELSE IF x.b + 1 < (2^18) THEN [x EXCEPT !.c = 0, !.b = @ + 1]
       ELSE IF x.a + 1 < (2^18) THEN [x EXCEPT !.c = 0, !.b = 0, !.a = @ + 1]
       ELSE Double(0, 0, 0, x.exp + 1)
  ELSE x

\* n / d for integers 0 < n <= d < 2^13
Divide(n, d) ==
  LET z == CHOOSE k \in 0..13 : n * (2^k) >= d /\ (k = 0 \/ n * (2^(k - 1)) < d)
      r0 == (n * (2^z)) - d
      a == (r0 * (2^18)) \div d
      r1 == (r0 * (2^18)) % d
      b == (r1 * (2^18)) \div d
      r2 == (r1 * (2^18)) % d
      c == (r2 * (2^17)) \div d
      r3 == (r2 * (2^17)) % d
  IN  RoundToDouble(Double(a, b, c \div 2, 0 - (52 + z)), c % 2, r3 # 0)

\* x * k for an integer 64 <= k < 128
Times(x, k) ==
  LET c == x.c * k
      b == (x.b * k) + (c \div (2^16))
      a == (x.a * k) + (b \div (2^18))
      hi == k + (a \div (2^18))
      s == IF hi < 128 THEN 6 ELSE 7
      low == c % (2^16)
  IN  RoundToDouble(
        Double(((a % (2^18)) \div (2^s)) + ((hi % (2^s)) * (2^(18 - s))),
               ((b % (2^18)) \div (2^s)) + ((a % (2^s)) * (2^(18 - s))),
               (low \div (2^s)) + ((b % (2^s)) * (2^(16 - s))),
               x.exp + s),
        (low \div (2^(s - 1))) % 2, (low % (2^(s - 1))) # 0)

\* Math.round(x) for 0 < x < 2^18: the nearest integer, a half rounding up
MathRound(x) ==
  LET n == 53 + x.exp
      top == (2^18) + x.a
  IN  IF n < 0 THEN 0 ELSE (top \div (2^(19 - n))) + ((top \div (2^(18 - n))) % 2)

(***************************************************************************)
(* Scoring.  A question record carries every field of QuizQuestionRecord   *)
(* the scoring reads; points = NULL is an absent points field.             *)
(***************************************************************************)
PointsOf(question) == IF question.points = NULL THEN 1 ELSE question.points

\* isCorrectAttempt comparing the accepted answers without trimming them.
isCorrectAttemptUntrimmed(question, answer) ==
  CASE question.type = "multiple_choice_single" -> StrictEq(answer, question.correctAnswer)
    [] question.type = "multiple_choice_multi" ->
         LET provided == IF answer.t = "arr" THEN sort(answer.a) ELSE <<>>
             expected == sort(question.correctAnswers)
         IN  /\ Len(provided) = Len(expected)
             /\ \A idx \in 1..Len(provided) : provided[idx] = expected[idx]
    [] question.type = "true_false" -> StrictEq(answer, question.correctAnswer)
    [] question.type = "short_text" ->
         LET normalized == toLowerCase(trim(String(Coalesce(answer, Str(<<>>)))))
         IN  \E i \in 1..Len(question.acceptedAnswers) :
               toLowerCase(question.acceptedAnswers[i]) = normalized
    [] OTHER -> FALSE

\* scoreAttempt's per-question rule (the body of its questions.map callback).
isCorrectAttempt(question, answer) ==
  CASE question.type = "multiple_choice_single" -> StrictEq(answer, question.correctAnswer)
    [] question.type = "multiple_choice_multi" ->
         LET provided == IF answer.t = "arr" THEN sort(answer.a) ELSE <<>>
             expected == sort(question.correctAnswers)
         IN  /\ Len(provided) = Len(expected)
             /\ \A idx \in 1..Len(provided) : provided[idx] = expected[idx]
    [] question.type = "true_false" -> StrictEq(answer, question.correctAnswer)
    [] question.type = "short_text" ->
         LET normalized == toLowerCase(trim(String(Coalesce(answer, Str(<<>>)))))
         IN  \E i \in 1..Len(question.acceptedAnswers) :
               toLowerCase(trim(question.acceptedAnswers[i])) = normalized
    [] OTHER -> FALSE

\* scoreQuiz's per-question rule (the body of its quiz.questions.map callback).
isCorrectQuiz(question, answer) ==
  CASE question.type = "multiple_choice_single" -> StrictEq(answer, question.correctAnswer)
    [] question.type = "multiple_choice_multi" ->
         LET provided == IF answer.t = "arr" THEN sort(answer.a) ELSE <<>>
             expected == sort(question.correctAnswers)
         IN  /\ Len(provided) = Len(expected)
             /\ \A idx \in 1..Len(provided) : provided[idx] = expected[idx]
    [] question.type = "true_false" -> StrictEq(answer, question.correctAnswer)
    [] question.type = "short_text" ->
         LET normalized == toLowerCase(trim(String(Coalesce(answer, Str(<<>>)))))
         IN  \E i \in 1..Len(question.acceptedAnswers) :
               toLowerCase(trim(question.acceptedAnswers[i])) = normalized
    [] OTHER -> FALSE

\* the percentage without the division by maxScore
PercentageOfOne(totalScore, maxScore) == totalScore * 100

\* maxScore === 0 ? 0 : Math.round((totalScore / maxScore) * 100), the same
\* expression in both scoring functions.
Percentage(totalScore, maxScore) ==
  IF maxScore = 0 THEN 0
  ELSE IF totalScore = 0 THEN 0
  ELSE MathRound(Times(Divide(totalScore, maxScore), 100))

\* Passed with a strict comparison.
PassedAbove(passingScore, percentage) ==
  IF passingScore = NULL \/ passingScore = 0 THEN TRUE ELSE percentage > passingScore

\* passingScore ? percentage >= passingScore : true   (undefined and 0 are falsy)
Passed(passingScore, percentage) ==
  IF passingScore = NULL \/ passingScore = 0 THEN TRUE ELSE percentage >= passingScore

\* server/utils/scoring.ts
scoreAttempt(qs, ans, passingScore) ==
  LET perQuestion == [i \in 1..Len(qs) |->
        LET answer == Coalesce(ans[qs[i].id], Null)
            isCorrect == isCorrectAttempt(qs[i], answer)
        IN  [questionId |-> qs[i].id,
             isCorrect |-> isCorrect,
             earnedPoints |-> IF isCorrect THEN PointsOf(qs[i]) ELSE 0,
             answer |-> answer]]
      totalScore == SumSeq([i \in 1..Len(qs) |-> perQuestion[i].earnedPoints])
      maxScore == SumSeq([i \in 1..Len(qs) |-> PointsOf(qs[i])])
      percentage == Percentage(totalScore, maxScore)
  IN  [totalScore |-> totalScore,
       maxScore |-> maxScore,
       percentage |-> percentage,
       passed |-> Passed(passingScore, percentage),
       perQuestion |-> perQuestion]

\* src/utils/quiz.ts
scoreQuiz(quiz, ans) ==
  LET qs == quiz.questions
      perQuestion == [i \in 1..Len(qs) |->
        LET answer == Coalesce(ans[qs[i].id], Null)
            isCorrect == isCorrectQuiz(qs[i], answer)
        IN  [questionId |-> qs[i].id,
             isCorrect |-> isCorrect,
             score |-> IF isCorrect THEN 1 ELSE 0,
             maxScore |-> 1,
             answer |-> answer]]
      totalScore == SumSeq([i \in 1..Len(qs) |-> perQuestion[i].score])
      maxScore == SumSeq([i \in 1..Len(qs) |-> perQuestion[i].maxScore])
      percentage == Percentage(totalScore, maxScore)
  IN  [totalScore |-> totalScore,
       maxScore |-> maxScore,
       percentage |-> percentage,
       passed |-> Passed(quiz.passingScore, percentage),
       perQuestion |-> perQuestion]

(***************************************************************************)
(* The database.  Attempt ids are 1, 2, ... in the order of creation       *)
(* (randomUUID() never repeats); question ids are the questions' indexes   *)
(* at creation.  A value is stored in a JSONB column as it was given.      *)
(***************************************************************************)
Users == {"owner", "p1"}
QuizIds == {"z1"}
\* a quiz id no row has
NoQuiz == "z0"

AttemptIds == 1..MaxAttempts

NoResponse == [op |-> "none", status |-> 0, code |-> ""]
Response(op, status, code) == [op |-> op, status |-> status, code |-> code]

\* A required single-choice question worth 2 points and an optional
\* short-text question worth 1.
Question1 ==
  [id |-> 1, type |-> "multiple_choice_single", required |-> TRUE, points |-> 2,
   options |-> << <<"A">>, <<"B">> >>, correctAnswer |-> Str(<<"A">>),
   correctAnswers |-> <<>>, acceptedAnswers |-> <<>>]
Question2 ==
  [id |-> 2, type |-> "short_text", required |-> FALSE, points |-> 1,
   options |-> <<>>, correctAnswer |-> Undef,
   correctAnswers |-> <<>>, acceptedAnswers |-> << <<"a">> >>]

QuizRow(status, visibility, enforce, timeLimit) ==
  [owner_id |-> "owner", status |-> status, visibility |-> visibility,
   settings_json |-> [timeLimitSeconds |-> timeLimit, passingScore |-> 50,
                      allowSkip |-> TRUE, showQuestionList |-> FALSE,
                      enforceRequiredBeforeSubmit |-> enforce]]

\* The quizzes an attempt is run against.  settings_json's
\* enforceRequiredBeforeSubmit is "true", "false" or "unset" (a row written
\* without the field).
QuizConfigs ==
  { [quiz |-> QuizRow("published", "public", "true", NULL), questions |-> <<Question1>>],
    [quiz |-> QuizRow("published", "private", "unset", NULL), questions |-> <<Question1, Question2>>],
    [quiz |-> QuizRow("published", "private", "false", NULL), questions |-> <<Question1>>],
    [quiz |-> QuizRow("draft", "public", "true", NULL), questions |-> <<Question1>>] }

AttemptRow(z, u, t) ==
  [quiz_id |-> z, user_id |-> u, started_at |-> t, submitted_at |-> NULL,
   time_taken_seconds |-> NULL, score |-> NULL, percentage |-> NULL, passed |-> Null]

AnswerRow(a, q, v, isCorrect, earned) ==
  [attempt_id |-> a, question_id |-> q, answer_json |-> v,
   is_correct |-> isCorrect, earned_points |-> earned]

\* SELECT * FROM attempts WHERE id = $1
AttemptExists(a) == a \in DOMAIN attempts

\* the rows of (attempt_id, question_id) in a table
RowsOf(tbl, a, q) == {r \in BagToSet(tbl) : r.attempt_id = a /\ r.question_id = q}
RowsOfAttempt(tbl, a) == {r \in BagToSet(tbl) : r.attempt_id = a}

\* fetchQuizWithQuestions
fetchQuizWithQuestions(z) ==
  IF z \in QuizIds
  THEN [found |-> TRUE, quiz |-> quizzes[z], questions |-> questions[z]]
  ELSE [found |-> FALSE, quiz |-> QuizRow("draft", "private", "unset", NULL), questions |-> <<>>]

\* IsMissing with the string case comparing the untrimmed length.
IsMissingNoTrim(answer) ==
  IF answer.t = "arr" THEN Len(answer.a) = 0
  ELSE IF answer.t = "str" THEN Len(answer.s) = 0
  ELSE answer.t \in {"null", "undef"}

\* The emptiness test of the submit handler's missingRequired filter.
IsMissing(answer) ==
  IF answer.t = "arr" THEN Len(answer.a) = 0
  ELSE IF answer.t = "str" THEN Len(trim(answer.s)) = 0
  ELSE answer.t \in {"null", "undef"}

missingRequired(qs, ans) ==
  {i \in 1..Len(qs) : qs[i].required /\ IsMissing(ans[qs[i].id])}

\* quiz.settings_json?.enforceRequiredBeforeSubmit !== false && missingRequired.length > 0
RefusesSubmit(quiz, qs, ans) ==
  quiz.settings_json.enforceRequiredBeforeSubmit # "false" /\ missingRequired(qs, ans) # {}

\* UPDATE attempts SET submitted_at = NULL WHERE id = $1
ClearSubmittedAt(att, a) == [att EXCEPT ![a].submitted_at = NULL]

\* UpsertAnswer as an insert that ignores the row already stored for the key.
UpsertAnswerAppend(tbl, a, q, v) == tbl (+) SetToBag({AnswerRow(a, q, v, Null, NULL)})

\* INSERT INTO answers ... ON CONFLICT (attempt_id, question_id) DO UPDATE SET answer_json = $4
UpsertAnswer(tbl, a, q, v) ==
  IF RowsOf(tbl, a, q) = {}
  THEN tbl (+) SetToBag({AnswerRow(a, q, v, Null, NULL)})
  ELSE LET kept == {r \in BagToSet(tbl) : ~(r.attempt_id = a /\ r.question_id = q)}
       IN  [r \in kept |-> tbl[r]] (+)
             SetToBag({[r EXCEPT !.answer_json = v] : r \in RowsOf(tbl, a, q)})

\* answers.question_id REFERENCES questions(id)
QuestionExists(q) == \E z \in QuizIds : \E i \in 1..Len(questions[z]) : questions[z][i].id = q

\* the loop over Object.entries(parse.data.answers); an insert that violates
\* the foreign key throws, and the rows written before it stay
RECURSIVE UpsertAll(_, _, _)
UpsertAll(tbl, a, entries) ==
  IF entries = <<>> THEN [tbl |-> tbl, threw |-> FALSE]
  ELSE IF ~QuestionExists(Head(entries)[1]) THEN [tbl |-> tbl, threw |-> TRUE]
  ELSE UpsertAll(UpsertAnswer(tbl, a, Head(entries)[1], Head(entries)[2]), a, Tail(entries))

\* UPDATE attempts SET submitted_at = NOW(), time_taken_seconds, score, percentage, passed
UpdateSubmitted(att, a, timeTakenSeconds, scoreResult) ==
  [att EXCEPT ![a] = [@ EXCEPT !.submitted_at = now,
                               !.time_taken_seconds = timeTakenSeconds,
                               !.score = scoreResult.totalScore,
                               !.percentage = scoreResult.percentage,
                               !.passed = Bool(scoreResult.passed)]]

\* the submit handler without its DELETE: the rows stored before stay
KeepAnswers(tbl, a) == tbl

\* DELETE FROM answers WHERE attempt_id = $1
DeleteAnswers(tbl, a) ==
  LET kept == {r \in BagToSet(tbl) : r.attempt_id # a} IN [r \in kept |-> tbl[r]]

\* INSERT INTO answers (..., is_correct, earned_points): a plain insert, which the
\* unique index answers_attempt_question_idx refuses for a key already present.
ViolatesUnique(tbl, a, q) == RowsOf(tbl, a, q) # {}

InsertGraded(tbl, a, item) ==
  tbl (+) SetToBag({AnswerRow(a, item.questionId, item.answer,
                              Bool(item.isCorrect), item.earnedPoints)})

RECURSIVE InsertAllGraded(_, _, _)
InsertAllGraded(tbl, a, items) ==
  IF items = <<>> THEN tbl
  ELSE InsertAllGraded(InsertGraded(tbl, a, Head(items)), a, Tail(items))

\* Math.round((Date.now() - started_at) / 1000)
TimeTaken(attempt) == now - attempt.started_at

AuditLog(logs, actionType, entityId) == logs \cup {<<actionType, entityId>>}

(***************************************************************************)
(* Request inputs.                                                         *)
(***************************************************************************)
\* values a participant sends for the required single-choice question
Vals1 == {Undef, Null, Str(<<" ">>), Arr(<<>>), Str(<<"A">>)}
\* ... and for the optional short-text question
Vals2 == {Undef, Str(<<"a">>)}

\* the answers object of a submit request, as a map that yields undefined
\* for a key it does not hold: the optional question left out, or answered
\* beside a required answer that is given or absent
SubmitPayloads ==
  {[q \in 1..2 |-> IF q = 1 THEN v ELSE Undef] : v \in Vals1}
    \cup {[q \in 1..2 |-> IF q = 1 THEN v ELSE w] : v \in {Undef, Str(<<"A">>)}, w \in Vals2}

\* the answers object of an answer request, as its entries in order
AnswerPayloads ==
  { <<>>,
    << <<1, Str(<<"A">>)>> >>,
    << <<1, Null>> >>,
    << <<2, Str(<<"a">>)>>, <<1, Str(<<"B">>)>> >> }

(***************************************************************************)
(* The attempt API, one request at a time.                                 *)
(***************************************************************************)
ServerIdle ==
  /\ now = 0
  /\ attempts = <<>>
  /\ answers = EmptyBag
  /\ audit_logs = {}
  /\ res = NoResponse

OthersIdle ==
  /\ reqs = <<>>
  /\ runner = <<>>
  /\ sc = <<>>

Init ==
  /\ ServerIdle
  /\ \E cfg \in QuizConfigs :
       /\ quizzes = [z \in QuizIds |-> cfg.quiz]
       /\ questions = [z \in QuizIds |-> cfg.questions]
  /\ OthersIdle

\* a second passes
Tick ==
  /\ now < MaxTime
  /\ now' = now + 1
  /\ UNCHANGED <<quizzes, questions, attempts, answers, audit_logs, res, reqs, runner, sc>>

\* POST /quizzes/:id/attempts/start: what the handler does to the tables and
\* the response it sends, while the attempts table has fewer than max rows
startHandlerUpTo(u, z, max) ==
  LET quizData == fetchQuizWithQuestions(z)
      quiz == quizData.quiz
      attemptId == Len(attempts) + 1
  IN  IF ~quizData.found
      THEN /\ res' = Response("start", 404, "not_found")
           /\ UNCHANGED <<attempts, audit_logs>>
      ELSE IF quiz.status # "published"
      THEN /\ res' = Response("start", 403, "forbidden")
           /\ UNCHANGED <<attempts, audit_logs>>
      ELSE IF quiz.visibility = "private" /\ quiz.owner_id # u
      THEN /\ res' = Response("start", 403, "forbidden")
           /\ UNCHANGED <<attempts, audit_logs>>
      ELSE /\ attemptId <= max
           /\ attempts' = Append(attempts, AttemptRow(z, u, now))
           /\ audit_logs' = AuditLog(audit_logs, "attempt_started", attemptId)
           /\ res' = Response("start", 201, "created")

\* startHandler without the test of the quiz's status
startHandlerAnyStatus(u, z) ==
  LET quizData == fetchQuizWithQuestions(z)
      quiz == quizData.quiz
      attemptId == Len(attempts) + 1
  IN  IF ~quizData.found
      THEN /\ res' = Response("start", 404, "not_found")
           /\ UNCHANGED <<attempts, audit_logs>>
      ELSE IF quiz.visibility = "private" /\ quiz.owner_id # u
      THEN /\ res' = Response("start", 403, "forbidden")
           /\ UNCHANGED <<attempts, audit_logs>>
      ELSE /\ attemptId <= MaxAttempts
           /\ attempts' = Append(attempts, AttemptRow(z, u, now))
           /\ audit_logs' = AuditLog(audit_logs, "attempt_started", attemptId)
           /\ res' = Response("start", 201, "created")

\* POST /quizzes/:id/attempts/start
startHandler(u, z) == startHandlerUpTo(u, z, MaxAttempts)

StartAttempt(u, z) ==
  /\ startHandler(u, z)
  /\ UNCHANGED <<now, quizzes, questions, answers, reqs, runner, sc>>

\* POST /attempts/:attemptId/answer
RecordAnswer(u, a, entries) ==
  /\ IF ~AttemptExists(a) \/ attempts[a].user_id # u
     THEN /\ res' = Response("answer", 404, "not_found")
          /\ UNCHANGED <<attempts, answers>>
     ELSE LET written == UpsertAll(answers, a, entries)
          IN  /\ attempts' = ClearSubmittedAt(attempts, a)
              /\ answers' = written.tbl
              /\ res' = IF written.threw
                        THEN Response("answer", 500, "server_error")
                        ELSE Response("answer", 200, "success")
  /\ UNCHANGED <<now, quizzes, questions, audit_logs, reqs, runner, sc>>

\* POST /attempts/:attemptId/submit: what the handler does to the tables and
\* the response it sends
submitHandler(u, a, payload) ==
  IF ~AttemptExists(a) \/ attempts[a].user_id # u
  THEN /\ res' = Response("submit", 404, "not_found")
       /\ UNCHANGED <<attempts, answers, audit_logs>>
  ELSE LET quizData == fetchQuizWithQuestions(attempts[a].quiz_id)
           scoreResult == scoreAttempt(quizData.questions, payload,
                                       quizData.quiz.settings_json.passingScore)
       IN  IF ~quizData.found
           THEN /\ res' = Response("submit", 404, "not_found")
                /\ UNCHANGED <<attempts, answers, audit_logs>>
           ELSE IF RefusesSubmit(quizData.quiz, quizData.questions, payload)
           THEN /\ res' = Response("submit", 400, "missing_required")
                /\ UNCHANGED <<attempts, answers, audit_logs>>
           ELSE /\ attempts' = UpdateSubmitted(attempts, a, TimeTaken(attempts[a]), scoreResult)
                /\ answers' = InsertAllGraded(DeleteAnswers(answers, a), a,
                                              scoreResult.perQuestion)
                /\ audit_logs' = AuditLog(audit_logs, "attempt_submitted", a)
                /\ res' = Response("submit", 200, "ok")

SubmitAttempt(u, a, payload) ==
  /\ submitHandler(u, a, payload)
  /\ UNCHANGED <<now, quizzes, questions, reqs, runner, sc>>

Next ==
  \/ Tick
  \/ \E u \in Users, z \in QuizIds \cup {NoQuiz} : StartAttempt(u, z)
  \/ \E u \in Users, a \in AttemptIds, entries \in AnswerPayloads : RecordAnswer(u, a, entries)
  \/ \E u \in Users, a \in AttemptIds, payload \in SubmitPayloads : SubmitAttempt(u, a, payload)

Spec == Init /\ [][Next]_vars

(***************************************************************************)
(* Properties of the attempt API.                                          *)
(***************************************************************************)
Submitted(a) == AttemptExists(a) /\ attempts[a].submitted_at # NULL
InProgress(a) == AttemptExists(a) /\ attempts[a].submitted_at = NULL

\* number of rows stored for (attempt, question)
RowCount(tbl, a, q) == BagCardinality([r \in RowsOf(tbl, a, q) |-> tbl[r]])

\* C1: a submit on an attempt that is already SUBMITTED fails, and the attempt
\* row and its stored per-question outcomes are what they were before.
C1_ResubmitRejected ==
  [][\A u \in Users, a \in AttemptIds, payload \in SubmitPayloads :
       (Submitted(a) /\ SubmitAttempt(u, a, payload))
         => (res'.status >= 400 /\ attempts' = attempts /\ answers' = answers)]_vars

\* C2: an answer request by the attempt's owner against a SUBMITTED attempt is
\* rejected and writes nothing.
C2_AnswerAfterSubmitRejected ==
  [][\A u \in Users, a \in AttemptIds, entries \in AnswerPayloads :
       (Submitted(a) /\ attempts[a].user_id = u /\ RecordAnswer(u, a, entries))
         => (res'.status >= 400 /\ attempts' = attempts /\ answers' = answers)]_vars

\* C3: once an attempt's submitted_at is set it is never cleared.
C3_SubmittedIsTerminal ==
  [][\A a \in AttemptIds : Submitted(a) => attempts'[a].submitted_at # NULL]_vars

\* An empty answer, as the claim lists the cases: absent, null, a string of
\* nothing but white space, an empty sequence.
EmptyAnswer(v) ==
  \/ v.t \in {"undef", "null"}
  \/ v.t = "str" /\ \A i \in 1..Len(v.s) : v.s[i] = " "
  \/ v.t = "arr" /\ v.a = <<>>

EnforcesRequired(a) ==
  quizzes[attempts[a].quiz_id].settings_json.enforceRequiredBeforeSubmit \in {"true", "unset"}

SomeRequiredEmpty(a, payload) ==
  LET qs == questions[attempts[a].quiz_id]
  IN  \E i \in 1..Len(qs) : qs[i].required /\ EmptyAnswer(payload[qs[i].id])

\* a submit request was refused for missing required answers and no row of
\* attempts or answers changed
RefusedUnchanged ==
  /\ res' = Response("submit", 400, "missing_required")
  /\ attempts' = attempts
  /\ answers' = answers

\* C5: a submit by the attempt's owner on a quiz that enforces required answers
\* (true or unset), with a required question's answer empty (absent, null,
\* blank after trim, or an empty sequence), is refused with missing_required
\* and leaves the attempt row and the stored answers as they were, so an
\* IN_PROGRESS attempt stays IN_PROGRESS.
C5_MissingRequiredRefused ==
  [][res'.op = "submit" =>
       \A a \in AttemptIds :
         (AttemptExists(a) /\ EnforcesRequired(a)) =>
           \A payload \in SubmitPayloads :
             \/ RefusedUnchanged /\ (InProgress(a) => attempts'[a].submitted_at = NULL)
             \/ ~(SomeRequiredEmpty(a, payload)
                    /\ SubmitAttempt(attempts[a].user_id, a, payload))]_vars

\* C5 witness: a submit was refused for missing required answers while an
\* attempt with stored answers is in progress.
C5_Witness ==
  /\ res = Response("submit", 400, "missing_required")
  /\ \E a \in AttemptIds : InProgress(a) /\ RowsOfAttempt(answers, a) # {}

\* the entries of an answer request as a set of question ids
EntryKeys(entries) == {entries[i][1] : i \in 1..Len(entries)}

\* C8: after a successful answer request on an IN_PROGRESS attempt there is one
\* stored row per question id of the request, holding the request's value; no
\* key ever has two rows; every other row is as it was; and a request whose
\* values are all stored already changes no stored answer.
C8_AnswerUpsert ==
  [][res' = Response("answer", 200, "success") =>
       \A a \in AttemptIds, entries \in AnswerPayloads :
         (InProgress(a) /\ RecordAnswer(attempts[a].user_id, a, entries))
           => ( /\ \A i \in 1..Len(entries) :
                     /\ RowCount(answers', a, entries[i][1]) = 1
                     /\ \A r \in RowsOf(answers', a, entries[i][1]) :
                          r.answer_json = entries[i][2]
                /\ \A b \in AttemptIds, q \in 1..MaxQuestions :
                     /\ RowCount(answers', b, q) <= 1
                     /\ (b # a \/ q \notin EntryKeys(entries))
                          => RowsOf(answers', b, q) = RowsOf(answers, b, q)
                /\ (\A i \in 1..Len(entries) :
                      \E r \in RowsOf(answers, a, entries[i][1]) :
                        r.answer_json = entries[i][2])
                     => answers' = answers )]_vars

\* C8 witness: an answer request succeeded on an attempt in progress and its
\* two rows are stored.
C8_Witness ==
  /\ res = Response("answer", 200, "success")
  /\ \E a \in AttemptIds :
       /\ InProgress(a)
       /\ \E r \in RowsOf(answers, a, 1) : r.answer_json = Str(<<"B">>) /\ r.is_correct = Null
       /\ \E r \in RowsOf(answers, a, 2) : r.answer_json = Str(<<"a">>)

(***************************************************************************)
(* ScoreSpec: the two scoring functions applied to the same input.  The    *)
(* client scores the questions the server returned for the quiz, so both   *)
(* functions see the same question records.                                *)
(***************************************************************************)
\* question variants, by kind, with id i
ScoreQuestion(i, k) ==
  CASE k = 1 -> [id |-> i, type |-> "multiple_choice_single", required |-> TRUE, points |-> 2,
                 options |-> << <<"A">>, <<"B">> >>, correctAnswer |-> Str(<<"A">>),
                 correctAnswers |-> <<>>, acceptedAnswers |-> <<>>]
    [] k = 2 -> [id |-> i, type |-> "multiple_choice_multi", required |-> TRUE, points |-> 1,
                 options |-> << <<"A">>, <<"B">>, <<"C">> >>, correctAnswer |-> Undef,
                 correctAnswers |-> << <<"A">>, <<"B">> >>, acceptedAnswers |-> <<>>]
    [] k = 3 -> [id |-> i, type |-> "true_false", required |-> TRUE, points |-> NULL,
                 options |-> <<>>, correctAnswer |-> Bool(TRUE),
                 correctAnswers |-> <<>>, acceptedAnswers |-> <<>>]
    [] k = 4 -> [id |-> i, type |-> "short_text", required |-> FALSE, points |-> 1,
                 options |-> <<>>, correctAnswer |-> Undef,
                 correctAnswers |-> <<>>, acceptedAnswers |-> << <<"A">> >>]
    [] OTHER -> [id |-> i, type |-> "short_text", required |-> FALSE, points |-> 2,
                 options |-> <<>>, correctAnswer |-> Undef,
                 correctAnswers |-> <<>>, acceptedAnswers |-> << <<"t", "r", "u", "e">> >>]

QuestionKinds == {1, 2, 3, 4, 5}

ScoreVals ==
  { Undef, Null, Bool(TRUE), Bool(FALSE), Str(<<"A">>), Str(<<" ", "a", " ">>),
    Arr(<< <<"B">>, <<"A">> >>), Arr(<< <<"A">> >>) }

PassingScores == {NULL, 0, 50, 100}

NotScored == [totalScore |-> 0, maxScore |-> 0, percentage |-> 0, passed |-> FALSE,
              perQuestion |-> <<>>]

\* a quiz the tables hold while no request is made
IdleQuiz == [quiz |-> QuizRow("draft", "private", "unset", NULL), questions |-> <<Question1>>]

ServerUnused ==
  /\ now = 0
  /\ quizzes = [z \in QuizIds |-> IdleQuiz.quiz]
  /\ questions = [z \in QuizIds |-> IdleQuiz.questions]
  /\ attempts = <<>>
  /\ answers = EmptyBag
  /\ audit_logs = {}
  /\ res = NoResponse

ScoreInit ==
  /\ ServerUnused
  /\ reqs = <<>>
  /\ runner = <<>>
  /\ \E n \in 0..MaxQuestions :
       \E kinds \in [1..n -> QuestionKinds], ans \in [1..n -> ScoreVals], p \in PassingScores :
         sc = [phase |-> "input",
               questions |-> [i \in 1..n |-> ScoreQuestion(i, kinds[i])],
               answers |-> ans,
               passingScore |-> p,
               server |-> NotScored,
               client |-> NotScored]

\* the server grades the input and the client previews it
Score ==
  /\ sc.phase = "input"
  /\ sc' = [sc EXCEPT !.phase = "scored",
                      !.server = scoreAttempt(sc.questions, sc.answers, sc.passingScore),
                      !.client = scoreQuiz([questions |-> sc.questions,
                                            passingScore |-> sc.passingScore], sc.answers)]
  /\ UNCHANGED <<now, quizzes, questions, attempts, answers, audit_logs, res, reqs, runner>>

ScoreNext == Score

ScoreSpec == ScoreInit /\ [][ScoreNext]_vars

\* C9: for questions with points >= 1, the client's scoreQuiz and the
\* server's scoreAttempt return the same totalScore, maxScore, percentage,
\* passed and per-question isCorrect and earned score.
C9_ClientServerAgree ==
  (sc.phase = "scored" /\ \A i \in 1..Len(sc.questions) : sc.questions[i].points >= 1) =>
    /\ sc.client.totalScore = sc.server.totalScore
    /\ sc.client.maxScore = sc.server.maxScore
    /\ sc.client.percentage = sc.server.percentage
    /\ sc.client.passed = sc.server.passed
    /\ Len(sc.client.perQuestion) = Len(sc.server.perQuestion)
    /\ \A i \in 1..Len(sc.server.perQuestion) :
         /\ sc.client.perQuestion[i].isCorrect = sc.server.perQuestion[i].isCorrect
         /\ sc.client.perQuestion[i].score = sc.server.perQuestion[i].earnedPoints

\* the points of the drawn questions, an absent points field counting 1
DrawnPoints(i) == IF sc.questions[i].points = NULL THEN 1 ELSE sc.questions[i].points

\* C10: in every score result each question's score is its points if the
\* answer is correct and 0 otherwise, and maxScore is the sum of the points
\* of all questions.
C10_ScoreIsPoints ==
  sc.phase = "scored" =>
    /\ \A i \in 1..Len(sc.questions) :
         /\ sc.server.perQuestion[i].earnedPoints
              = IF sc.server.perQuestion[i].isCorrect THEN DrawnPoints(i) ELSE 0
         /\ sc.client.perQuestion[i].score
              = IF sc.client.perQuestion[i].isCorrect THEN DrawnPoints(i) ELSE 0
    /\ sc.server.maxScore = SumSeq([i \in 1..Len(sc.questions) |-> DrawnPoints(i)])
    /\ sc.client.maxScore = SumSeq([i \in 1..Len(sc.questions) |-> DrawnPoints(i)])

(***************************************************************************)
(* ConcSpec: the submit handler as the steps between its awaits.  Several  *)
(* requests are in flight at once; each database statement takes effect    *)
(* on its own, with no transaction or row lock around the handler.         *)
(***************************************************************************)
NoAttempt == AttemptRow(NoQuiz, "none", 0)

\* a submit request whose body passed attemptAnswerSchema
Request(u, a, payload) ==
  [user |-> u, attemptId |-> a, payload |-> payload, pc |-> "read",
   attempt |-> NoAttempt, graded |-> FALSE, scoreResult |-> NotScored,
   timeTakenSeconds |-> NULL, i |-> 1, status |-> 0, code |-> ""]

RequestIds == DOMAIN reqs

Respond(r, status, code) ==
  /\ reqs' = [reqs EXCEPT ![r].pc = "done", ![r].status = status, ![r].code = code]
  /\ res' = Response("submit", status, code)

Receive(u, a, payload) ==
  /\ Len(reqs) < MaxRequests
  /\ reqs' = Append(reqs, Request(u, a, payload))
  /\ UNCHANGED <<now, quizzes, questions, attempts, answers, audit_logs, res, runner, sc>>

\* SELECT * FROM attempts WHERE id = $1, and the ownership check
ReadAttempt(r) ==
  /\ reqs[r].pc = "read"
  /\ IF ~AttemptExists(reqs[r].attemptId) \/ attempts[reqs[r].attemptId].user_id # reqs[r].user
     THEN Respond(r, 404, "not_found")
     ELSE /\ reqs' = [reqs EXCEPT ![r].pc = "fetch", ![r].attempt = attempts[reqs[r].attemptId]]
          /\ UNCHANGED res
  /\ UNCHANGED <<now, quizzes, questions, attempts, answers, audit_logs, runner, sc>>

\* fetchQuizWithQuestions, the required-answer gate, scoreAttempt and Date.now()
FetchAndGrade(r) ==
  LET quizData == fetchQuizWithQuestions(reqs[r].attempt.quiz_id)
  IN  /\ reqs[r].pc = "fetch"
      /\ IF ~quizData.found
         THEN Respond(r, 404, "not_found")
         ELSE IF RefusesSubmit(quizData.quiz, quizData.questions, reqs[r].payload)
         THEN Respond(r, 400, "missing_required")
         ELSE /\ reqs' = [reqs EXCEPT
                    ![r].pc = "update",
                    ![r].graded = TRUE,
                    ![r].scoreResult = scoreAttempt(quizData.questions, reqs[r].payload,
                                                    quizData.quiz.settings_json.passingScore),
                    ![r].timeTakenSeconds = TimeTaken(reqs[r].attempt)]
              /\ UNCHANGED res
      /\ UNCHANGED <<now, quizzes, questions, attempts, answers, audit_logs, runner, sc>>

\* UPDATE attempts SET submitted_at = NOW(), ... WHERE id = $5
UpdateAttempt(r) ==
  /\ reqs[r].pc = "update"
  /\ attempts' = UpdateSubmitted(attempts, reqs[r].attemptId, reqs[r].timeTakenSeconds,
                                 reqs[r].scoreResult)
  /\ reqs' = [reqs EXCEPT ![r].pc = "delete"]
  /\ UNCHANGED <<now, quizzes, questions, answers, audit_logs, res, runner, sc>>

\* DELETE FROM answers WHERE attempt_id = $1
DeleteStep(r) ==
  /\ reqs[r].pc = "delete"
  /\ answers' = DeleteAnswers(answers, reqs[r].attemptId)
  /\ reqs' = [reqs EXCEPT ![r].pc = IF reqs[r].scoreResult.perQuestion = <<>>
                                    THEN "audit" ELSE "insert"]
  /\ UNCHANGED <<now, quizzes, questions, attempts, audit_logs, res, runner, sc>>

\* one INSERT INTO answers of the loop over scoreResult.perQuestion
InsertStep(r) ==
  LET item == reqs[r].scoreResult.perQuestion[reqs[r].i]
  IN  /\ reqs[r].pc = "insert"
      /\ IF ViolatesUnique(answers, reqs[r].attemptId, item.questionId)
         THEN /\ reqs' = [reqs EXCEPT ![r].pc = "threw"]
              /\ UNCHANGED answers
         ELSE /\ answers' = InsertGraded(answers, reqs[r].attemptId, item)
              /\ reqs' = [reqs EXCEPT
                    ![r].i = @ + 1,
                    ![r].pc = IF reqs[r].i = Len(reqs[r].scoreResult.perQuestion)
                              THEN "audit" ELSE "insert"]
      /\ UNCHANGED <<now, quizzes, questions, attempts, audit_logs, res, runner, sc>>

\* INSERT INTO audit_logs ... 'attempt_submitted'
AuditStep(r) ==
  /\ reqs[r].pc = "audit"
  /\ audit_logs' = AuditLog(audit_logs, "attempt_submitted", reqs[r].attemptId)
  /\ reqs' = [reqs EXCEPT ![r].pc = "respond"]
  /\ UNCHANGED <<now, quizzes, questions, attempts, answers, res, runner, sc>>

\* res.json({ attemptId, score, ... })
RespondOk(r) ==
  /\ reqs[r].pc = "respond"
  /\ Respond(r, 200, "ok")
  /\ UNCHANGED <<now, quizzes, questions, attempts, answers, audit_logs, runner, sc>>

\* A rejected query: the error middleware answers 500 when the rejection
\* reaches it; otherwise the request is left without a response.
Threw(r) ==
  /\ reqs[r].pc = "threw"
  /\ \/ Respond(r, 500, "server_error")
     \/ /\ reqs' = [reqs EXCEPT ![r].pc = "done"]
        /\ UNCHANGED res
  /\ UNCHANGED <<now, quizzes, questions, attempts, answers, audit_logs, runner, sc>>

ConcNext ==
  \/ Tick
  \/ \E u \in Users, z \in QuizIds : StartAttempt(u, z)
  \/ \E u \in Users, a \in AttemptIds, payload \in SubmitPayloads : Receive(u, a, payload)
  \/ \E r \in RequestIds : ReadAttempt(r)
  \/ \E r \in RequestIds : FetchAndGrade(r)
  \/ \E r \in RequestIds : UpdateAttempt(r)
  \/ \E r \in RequestIds : DeleteStep(r)
  \/ \E r \in RequestIds : InsertStep(r)
  \/ \E r \in RequestIds : AuditStep(r)
  \/ \E r \in RequestIds : RespondOk(r)
  \/ \E r \in RequestIds : Threw(r)

ConcSpec == Init /\ [][ConcNext]_vars

\* the request read the attempt row while it was IN_PROGRESS
ObservedInProgress(r) ==
  reqs[r].pc # "read" /\ reqs[r].attempt # NoAttempt /\ reqs[r].attempt.submitted_at = NULL

\* C4: of two interleaved submit requests on the same IN_PROGRESS attempt
\* exactly one succeeds and the other fails with a conflict; never do both
\* observe IN_PROGRESS and both grade.
C4_OneSubmitWins ==
  \A r1, r2 \in RequestIds :
    (r1 # r2 /\ reqs[r1].attemptId = reqs[r2].attemptId
       /\ ObservedInProgress(r1) /\ ObservedInProgress(r2))
      => /\ ~(reqs[r1].graded /\ reqs[r2].graded)
         /\ ~(reqs[r1].status = 200 /\ reqs[r2].status = 200)
         /\ (reqs[r1].pc = "done" /\ reqs[r2].pc = "done"
               /\ {reqs[r1].code, reqs[r2].code} \cap {"not_found", "missing_required"} = {})
              => \E w \in {r1, r2} : \A l \in {r1, r2} \ {w} :
                   reqs[w].status = 200 /\ reqs[l].status = 409

(***************************************************************************)
(* RunnerSpec: the QuizRunner component of the client against the server.  *)
(* runner holds the component's React state; a handler that awaits a       *)
(* server call includes the server handler's effect.                       *)
(***************************************************************************)
RunnerUser == "p1"
RunnerQuizId == "z1"

\* the quizzes the runner is opened on: published and public, without
\* shuffleQuestions and shuffleOptions
RunnerConfigs ==
  { [quiz |-> [QuizRow("published", "public", e, t)
                 EXCEPT !.settings_json.showQuestionList = l],
     questions |-> <<Question1, Question2>>] :
      e \in {"true", "false", "unset"}, t \in {NULL} \cup (1..MaxTimeLimit), l \in BOOLEAN }

\* the QuizDefinition the load effect builds from GET /api/quizzes/:id
clientQuiz ==
  LET settings == quizzes[RunnerQuizId].settings_json
  IN  [id |-> RunnerQuizId,
       timeLimitSeconds |-> settings.timeLimitSeconds,
       passingScore |-> settings.passingScore,
       showQuestionList |-> settings.showQuestionList,
       allowSkip |-> settings.allowSkip,
       enforceRequiredBeforeSubmit |->
         IF settings.enforceRequiredBeforeSubmit = "unset" THEN "true"
         ELSE settings.enforceRequiredBeforeSubmit,
       questions |-> questions[RunnerQuizId]]

\* quiz.timeLimitSeconds as a condition
HasTimeLimit == clientQuiz.timeLimitSeconds # NULL /\ clientQuiz.timeLimitSeconds # 0

QuestionIds == {Question1.id, Question2.id}

\* the values QuestionBody passes to onChange for a question
InputValues(question) ==
  IF question.type = "multiple_choice_single"
  THEN {Str(question.options[i]) : i \in 1..Len(question.options)}
  ELSE {Str(<<>>), Str(<<" ">>), Str(<<"a">>)}

isAnswered(answer) ==
  IF answer.t = "arr" THEN Len(answer.a) > 0
  ELSE IF answer.t = "str" THEN Len(trim(answer.s)) > 0
  ELSE answer.t \notin {"null", "undef"}

currentQuestion == clientQuiz.questions[runner.currentIndex + 1]

requiredUnanswered ==
  {i \in 1..Len(clientQuiz.questions) :
     clientQuiz.questions[i].required /\ IsMissing(runner.answers[clientQuiz.questions[i].id])}

canNavigate ==
  IF currentQuestion.required THEN isAnswered(runner.answers[currentQuestion.id])
  ELSE IF clientQuiz.allowSkip THEN TRUE
  ELSE isAnswered(runner.answers[currentQuestion.id])

canSubmit == clientQuiz.enforceRequiredBeforeSubmit = "false" \/ requiredUnanswered = {}

\* the timeout effect, run after the render that follows a state change
TimeoutEffect(r) ==
  IF r.timeLeft = 0 /\ HasTimeLimit /\ r.started /\ ~r.submitted
  THEN [r EXCEPT !.submitted = TRUE]
  ELSE r

RunnerInit ==
  /\ ServerIdle
  /\ \E cfg \in RunnerConfigs :
       /\ quizzes = [z \in QuizIds |-> cfg.quiz]
       /\ questions = [z \in QuizIds |-> cfg.questions]
       /\ runner = [currentIndex |-> 0, started |-> FALSE, answers |-> [q \in QuestionIds |-> Undef],
                    submitted |-> FALSE, attemptId |-> NULL, submitError |-> FALSE,
                    timeLeft |-> IF cfg.quiz.settings_json.timeLimitSeconds = NULL THEN 0
                                 ELSE cfg.quiz.settings_json.timeLimitSeconds]
  /\ reqs = <<>>
  /\ sc = <<>>

\* the Start Quiz button, while the server holds fewer than max attempts
HandleStartUpTo(max) ==
  /\ ~runner.started
  /\ startHandlerUpTo(RunnerUser, clientQuiz.id, max)
  /\ runner' = IF res'.status = 201
               THEN TimeoutEffect([runner EXCEPT !.attemptId = Len(attempts'), !.started = TRUE])
               ELSE runner
  /\ UNCHANGED <<now, quizzes, questions, answers, reqs, sc>>

HandleStart == HandleStartUpTo(MaxAttempts)

\* the question card is shown
Answering == runner.started /\ ~runner.submitted

HandleAnswerChange(value) ==
  /\ Answering
  /\ value \in InputValues(currentQuestion)
  /\ runner' = [runner EXCEPT !.answers[currentQuestion.id] = value]
  /\ UNCHANGED <<now, quizzes, questions, attempts, answers, audit_logs, res, reqs, sc>>

\* the Previous button, disabled on the first question
HandlePrevious ==
  /\ Answering
  /\ runner.currentIndex # 0
  /\ runner' = [runner EXCEPT !.currentIndex = IF @ - 1 > 0 THEN @ - 1 ELSE 0]
  /\ UNCHANGED <<now, quizzes, questions, attempts, answers, audit_logs, res, reqs, sc>>

\* the Next button, shown before the last question and disabled unless canNavigate
HandleNext ==
  /\ Answering
  /\ runner.currentIndex # Len(clientQuiz.questions) - 1
  /\ canNavigate
  /\ runner' = [runner EXCEPT !.currentIndex =
                   IF @ + 1 < Len(clientQuiz.questions) - 1 THEN @ + 1
                   ELSE Len(clientQuiz.questions) - 1]
  /\ UNCHANGED <<now, quizzes, questions, attempts, answers, audit_logs, res, reqs, sc>>

\* a button of the question list in the sidebar, shown whenever started
HandleListClick(index) ==
  /\ runner.started
  /\ clientQuiz.showQuestionList
  /\ runner' = [runner EXCEPT !.currentIndex = index]
  /\ UNCHANGED <<now, quizzes, questions, attempts, answers, audit_logs, res, reqs, sc>>

\* the Submit Quiz button, shown on the last question and disabled unless canSubmit
HandleSubmit ==
  /\ Answering
  /\ runner.currentIndex = Len(clientQuiz.questions) - 1
  /\ canSubmit
  /\ IF runner.attemptId = NULL
     THEN /\ runner' = [runner EXCEPT !.submitError = FALSE]
          /\ UNCHANGED <<attempts, answers, audit_logs, res>>
     ELSE /\ submitHandler(RunnerUser, runner.attemptId, runner.answers)
          /\ runner' = IF res'.status = 200
                       THEN [runner EXCEPT !.submitError = FALSE, !.submitted = TRUE]
                       ELSE [runner EXCEPT !.submitError = TRUE]
  /\ UNCHANGED <<now, quizzes, questions, reqs, sc>>

\* the interval of useCountdown, running while started && !submitted
CountdownTick ==
  /\ runner.started /\ ~runner.submitted
  /\ HasTimeLimit
  /\ runner' = TimeoutEffect([runner EXCEPT !.timeLeft = IF @ - 1 > 0 THEN @ - 1 ELSE 0])
  /\ UNCHANGED <<now, quizzes, questions, attempts, answers, audit_logs, res, reqs, sc>>

\* the Retry Quiz button of the results view
HandleRestart ==
  /\ runner.started /\ runner.submitted
  /\ runner' = [runner EXCEPT !.submitted = FALSE, !.started = FALSE,
                              !.answers = [q \in QuestionIds |-> Undef],
                              !.currentIndex = 0]
  /\ UNCHANGED <<now, quizzes, questions, attempts, answers, audit_logs, res, reqs, sc>>

RunnerNext ==
  \/ Tick
  \/ HandleStart
  \/ \E value \in UNION {InputValues(q) : q \in {Question1, Question2}} : HandleAnswerChange(value)
  \/ HandlePrevious
  \/ HandleNext
  \/ \E index \in 0..(MaxQuestions - 1) : index < Len(clientQuiz.questions) /\ HandleListClick(index)
  \/ HandleSubmit
  \/ CountdownTick
  \/ HandleRestart

RunnerSpec == RunnerInit /\ [][RunnerNext]_vars

\* the browser fires the countdown's interval for as long as it is set
FairRunnerSpec == RunnerInit /\ [][RunnerNext]_vars /\ WF_vars(CountdownTick)

\* the runner shows results because the countdown ran out
TimedOut ==
  runner.started /\ runner.submitted /\ runner.attemptId # NULL
    /\ HasTimeLimit /\ runner.timeLeft = 0

\* C6: a forced (time-limit) submission with enforceRequiredBeforeSubmit true
\* and a required question unanswered succeeds: the attempt is SUBMITTED and
\* the unanswered required question is stored incorrect with 0 earned points.
C6_ForcedSubmitGrades ==
  (TimedOut /\ clientQuiz.enforceRequiredBeforeSubmit = "true" /\ requiredUnanswered # {})
    => /\ attempts[runner.attemptId].submitted_at # NULL
       /\ \A i \in requiredUnanswered :
            \E row \in RowsOf(answers, runner.attemptId, clientQuiz.questions[i].id) :
              row.is_correct = Bool(FALSE) /\ row.earned_points = 0

\* C7: when the countdown of a quiz with a time limit reaches 0 on a started,
\* unsubmitted attempt, the server's attempt record eventually becomes
\* SUBMITTED with graded answers stored.
C7_TimeoutReachesServer ==
  \A a \in AttemptIds :
    (TimedOut /\ runner.attemptId = a /\ InProgress(a))
      ~> (Submitted(a) /\ RowsOfAttempt(answers, a) # {})

(***************************************************************************)
(* PercentSpec: the scoring functions on quizzes whose points add up to    *)
(* MaxScore at most, under every passingScore the schemas accept.          *)
(***************************************************************************)
\* a single-choice question worth the given points
PointsQuestion(i, points) == [ScoreQuestion(i, 1) EXCEPT !.points = points]

\* the questions of a quiz: none, one, or two whose points add up to MaxScore at most
PointsQuizzes ==
  {<<>>}
    \cup {<<PointsQuestion(1, p)>> : p \in 1..MaxScore}
    \cup {<<PointsQuestion(1, p), PointsQuestion(2, q)>> :
            p \in 1..MaxScore, q \in 1..MaxScore}

AllPassingScores == {NULL} \cup (0..MaxPassingScore)

PercentInit ==
  /\ ServerUnused
  /\ reqs = <<>>
  /\ runner = <<>>
  /\ \E qs \in PointsQuizzes, first \in {Str(<<"A">>), Null}, p \in AllPassingScores :
       /\ SumSeq([i \in 1..Len(qs) |-> qs[i].points]) <= MaxScore
       /\ sc = [phase |-> "input",
                questions |-> qs,
                answers |-> [i \in 1..Len(qs) |-> IF i = 1 THEN first ELSE Null],
                passingScore |-> p,
                server |-> NotScored,
                client |-> NotScored]

PercentSpec == PercentInit /\ [][ScoreNext]_vars

\* C11: percentage is totalScore / maxScore * 100 rounded to the nearest
\* integer with halves rounded up, and 0 when maxScore is 0.
C11_PercentageRounded ==
  sc.phase = "scored" =>
    \A result \in {sc.server, sc.client} :
      result.percentage = IF result.maxScore = 0 THEN 0
                          ELSE RoundDiv(100 * result.totalScore, result.maxScore)

\* C12: passed is true when passingScore is unset, and otherwise exactly when
\* percentage >= passingScore, for every passingScore in 0..100.
C12_PassedRule ==
  sc.phase = "scored" =>
    \A result \in {sc.server, sc.client} :
      result.passed = (IF sc.passingScore = NULL THEN TRUE
                       ELSE result.percentage >= sc.passingScore)

\* C12 witness: results at both ends of the range, a quiz scored 0% under
\* passingScore 0 that passed, or one scored 100% under passingScore 100.
C12_Witness ==
  /\ sc.phase = "scored"
  /\ sc.questions # <<>>
  /\ \/ sc.passingScore = 0 /\ sc.server.percentage = 0 /\ sc.server.passed
     \/ sc.passingScore = 100 /\ sc.server.percentage = 100 /\ sc.server.passed

(***************************************************************************)
(* Quiz documents and the zod schemas that validate them: the client's     *)
(* quizSchema (src/utils/quiz.ts) and the server's quizSchema              *)
(* (server/utils/validation.ts).  A document is the parsed JSON of a quiz: *)
(* every field holds a JavaScript value, Undef for a missing key.  A field *)
(* that is never trimmed or lower-cased (type, prompt, id, title) holds    *)
(* its text as one character-like token.                                   *)
(***************************************************************************)
\* a JSON number; the number is the one element of field a
Num(n) == [t |-> "num", b |-> FALSE, s |-> <<>>, a |-> <<n>>]

NumberOf(v) == v.a[1]

\* the questions field: an array of question objects, or a value of another type
Docs(items) == [t |-> "arr", items |-> items]

NotDocs(v) == [t |-> v.t, items |-> <<>>]

RECURSIVE Flatten(_)
Flatten(xss) == IF xss = <<>> THEN <<>> ELSE Head(xss) \o Flatten(Tail(xss))

\* zod's name for the type of a value
ParsedType(v) ==
  CASE v.t = "undef" -> "undefined"
    [] v.t = "null" -> "null"
    [] v.t = "bool" -> "boolean"
    [] v.t = "str" -> "string"
    [] v.t = "num" -> "number"
    [] OTHER -> "array"

\* the message of zod's invalid_type issue
InvalidType(expected, v) ==
  IF v.t = "undef" THEN "Required" ELSE "Expected " \o expected \o ", received " \o ParsedType(v)

\* .optional()
zOptional(v, issues) == IF v.t = "undef" THEN <<>> ELSE issues

\* z.string()
zString(v) == IF v.t # "str" THEN <<InvalidType("string", v)>> ELSE <<>>

\* z.string().min(1, message)
zStringMin1(v, message) ==
  IF v.t # "str" THEN <<InvalidType("string", v)>>
  ELSE IF Len(v.s) < 1 THEN <<message>>
  ELSE <<>>

TooShort == "String must contain at least 1 character(s)"

\* z.boolean()
zBoolean(v) == IF v.t # "bool" THEN <<InvalidType("boolean", v)>> ELSE <<>>

\* z.number().int().positive()
zPositiveInt(v) ==
  IF v.t # "num" THEN <<InvalidType("number", v)>>
  ELSE IF NumberOf(v) <= 0 THEN <<"Number must be greater than 0">>
  ELSE <<>>

\* z.number().min(0).max(100)
zPassingScore(v) ==
  IF v.t # "num" THEN <<InvalidType("number", v)>>
  ELSE IF NumberOf(v) < 0 THEN <<"Number must be greater than or equal to 0">>
  ELSE IF NumberOf(v) > MaxPassingScore THEN <<"Number must be less than or equal to 100">>
  ELSE <<>>

\* z.number().int().min(1)
zPoints(v) ==
  IF v.t # "num" THEN <<InvalidType("number", v)>>
  ELSE IF NumberOf(v) < 1 THEN <<"Number must be greater than or equal to 1">>
  ELSE <<>>

\* z.array(z.string().min(1)).min(min, message)
zStringArray(v, min, message) ==
  IF v.t # "arr" THEN <<InvalidType("array", v)>>
  ELSE (IF Len(v.a) < min THEN <<message>> ELSE <<>>)
       \o Flatten([i \in 1..Len(v.a) |-> IF Len(v.a[i]) < 1 THEN <<TooShort>> ELSE <<>>])

QuestionTypes == {"multiple_choice_single", "multiple_choice_multi", "true_false", "short_text"}

ChoiceTypes == {"multiple_choice_single", "multiple_choice_multi"}

\* the discriminator of a question object names one of the four variants
HasVariant(d) == d.type.t = "str" /\ Len(d.type.s) = 1 /\ d.type.s[1] \in QuestionTypes

InvalidDiscriminator ==
  "Invalid discriminator value. Expected 'multiple_choice_single' | 'multiple_choice_multi' | 'true_false' | 'short_text'"

\* the fields a variant adds to the common ones, in both schemas
variantIssues(d) ==
  CASE d.type.s[1] = "multiple_choice_single" ->
         zStringArray(d.options, 2, "Provide at least 2 options.")
           \o zStringMin1(d.correctAnswer, TooShort)
    [] d.type.s[1] = "multiple_choice_multi" ->
         zStringArray(d.options, 2, "Provide at least 2 options.")
           \o zStringArray(d.correctAnswers, 1, "Provide at least 1 correct answer.")
    [] d.type.s[1] = "true_false" -> zBoolean(d.correctAnswer)
    [] OTHER -> zStringArray(d.acceptedAnswers, 1, "Provide at least 1 accepted answer.")

\* one member of the client's discriminated union applied to a question object
clientQuestionIssues(d) ==
  IF ~HasVariant(d) THEN <<InvalidDiscriminator>>
  ELSE zStringMin1(d.id, "Question id is required.")
         \o zStringMin1(d.prompt, "Prompt is required.")
         \o variantIssues(d)
         \o zOptional(d.explanation, zString(d.explanation))

\* z.array(z.discriminatedUnion('type', [...])), given the issues of each
\* element: no minimum length
zQuestions(v, issuesOfQuestions) ==
  IF v.t # "arr" THEN <<InvalidType("array", v)>> ELSE Flatten(issuesOfQuestions)

\* the issues of the client's quizSchema.safeParse(input); success is no issue
clientQuizSchema(doc) ==
  zStringMin1(doc.id, "Quiz id is required.")
    \o zStringMin1(doc.title, "Quiz title is required.")
    \o zOptional(doc.description, zString(doc.description))
    \o zOptional(doc.timeLimitSeconds, zPositiveInt(doc.timeLimitSeconds))
    \o zOptional(doc.passingScore, zPassingScore(doc.passingScore))
    \o zOptional(doc.shuffleQuestions, zBoolean(doc.shuffleQuestions))
    \o zOptional(doc.shuffleOptions, zBoolean(doc.shuffleOptions))
    \o zOptional(doc.showQuestionList, zBoolean(doc.showQuestionList))
    \o zQuestions(doc.questions, [i \in 1..Len(doc.questions.items) |->
                                    clientQuestionIssues(doc.questions.items[i])])

\* an optional number of the parsed data, NULL when the key is absent
OptionalNumber(v) == IF v.t = "num" THEN NumberOf(v) ELSE NULL

\* the fields of a parsed question that belong to its variant
variantData(d) ==
  [options |-> IF d.type.s[1] \in ChoiceTypes THEN d.options.a ELSE <<>>,
   correctAnswer |-> IF d.type.s[1] \in {"multiple_choice_single", "true_false"}
                     THEN d.correctAnswer ELSE Undef,
   correctAnswers |-> IF d.type.s[1] = "multiple_choice_multi" THEN d.correctAnswers.a ELSE <<>>,
   acceptedAnswers |-> IF d.type.s[1] = "short_text" THEN d.acceptedAnswers.a ELSE <<>>]

\* parseResult.data of the client: the keys of the schema, unknown keys stripped
clientQuestionData(d) ==
  [id |-> d.id.s, type |-> d.type.s[1], prompt |-> d.prompt.s, explanation |-> d.explanation,
   options |-> variantData(d).options, correctAnswer |-> variantData(d).correctAnswer,
   correctAnswers |-> variantData(d).correctAnswers,
   acceptedAnswers |-> variantData(d).acceptedAnswers]

clientQuizData(doc) ==
  [id |-> doc.id.s, title |-> doc.title.s, description |-> doc.description,
   timeLimitSeconds |-> OptionalNumber(doc.timeLimitSeconds),
   passingScore |-> OptionalNumber(doc.passingScore),
   shuffleQuestions |-> doc.shuffleQuestions, shuffleOptions |-> doc.shuffleOptions,
   showQuestionList |-> doc.showQuestionList,
   questions |-> [i \in 1..Len(doc.questions.items) |-> clientQuestionData(doc.questions.items[i])]]


\* the strings the drawn documents use that have the form of a UUID
UuidTokens == {"00000000-0000-4000-8000-000000000001", "00000000-0000-4000-8000-000000000002"}

\* z.string().uuid()
zUuid(v) ==
  IF v.t # "str" THEN <<InvalidType("string", v)>>
  ELSE IF ~(Len(v.s) = 1 /\ v.s[1] \in UuidTokens) THEN <<"Invalid uuid">>
  ELSE <<>>

Visibilities == {"private", "unlisted", "public"}

\* z.enum(['private', 'unlisted', 'public'])
zVisibility(v) ==
  IF v.t # "str" THEN <<InvalidType("'private' | 'unlisted' | 'public'", v)>>
  ELSE IF ~(Len(v.s) = 1 /\ v.s[1] \in Visibilities)
       THEN <<"Invalid enum value. Expected 'private' | 'unlisted' | 'public'">>
  ELSE <<>>

\* one member of the server's discriminated union: questionBase.extend({...})
serverQuestionIssues(d) ==
  IF ~HasVariant(d) THEN <<InvalidDiscriminator>>
  ELSE zOptional(d.id, zUuid(d.id))
         \o zStringMin1(d.prompt, "Prompt is required.")
         \o zOptional(d.required, zBoolean(d.required))
         \o zOptional(d.points, zPoints(d.points))
         \o zOptional(d.explanation, zString(d.explanation))
         \o variantIssues(d)

\* the issues of the server's quizSchema.safeParse(req.body); success is no issue
serverQuizSchema(doc) ==
  zOptional(doc.id, zString(doc.id))
    \o zStringMin1(doc.title, "Quiz title is required.")
    \o zOptional(doc.description, zString(doc.description))
    \o zOptional(doc.timeLimitSeconds, zPositiveInt(doc.timeLimitSeconds))
    \o zOptional(doc.passingScore, zPassingScore(doc.passingScore))
    \o zOptional(doc.shuffleQuestions, zBoolean(doc.shuffleQuestions))
    \o zOptional(doc.shuffleOptions, zBoolean(doc.shuffleOptions))
    \o zOptional(doc.showQuestionList, zBoolean(doc.showQuestionList))
    \o zOptional(doc.allowSkip, zBoolean(doc.allowSkip))
    \o zOptional(doc.enforceRequiredBeforeSubmit, zBoolean(doc.enforceRequiredBeforeSubmit))
    \o zOptional(doc.visibility, zVisibility(doc.visibility))
    \o zQuestions(doc.questions, [i \in 1..Len(doc.questions.items) |->
                                    serverQuestionIssues(doc.questions.items[i])])

\* .optional().default(d)
zDefault(v, d) == IF v.t = "undef" THEN d ELSE v

\* parse.data of the server: defaults applied, unknown keys stripped
serverQuestionData(d) ==
  [id |-> d.id, type |-> d.type.s[1], prompt |-> d.prompt.s,
   required |-> zDefault(d.required, Bool(TRUE)).b,
   points |-> NumberOf(zDefault(d.points, Num(1))),
   explanation |-> d.explanation,
   options |-> variantData(d).options, correctAnswer |-> variantData(d).correctAnswer,
   correctAnswers |-> variantData(d).correctAnswers,
   acceptedAnswers |-> variantData(d).acceptedAnswers]

serverQuizData(doc) ==
  [id |-> doc.id, title |-> doc.title.s, description |-> doc.description,
   timeLimitSeconds |-> OptionalNumber(doc.timeLimitSeconds),
   passingScore |-> OptionalNumber(doc.passingScore),
   shuffleQuestions |-> doc.shuffleQuestions, shuffleOptions |-> doc.shuffleOptions,
   showQuestionList |-> doc.showQuestionList,
   allowSkip |-> zDefault(doc.allowSkip, Bool(TRUE)),
   enforceRequiredBeforeSubmit |-> zDefault(doc.enforceRequiredBeforeSubmit, Bool(TRUE)),
   visibility |-> zDefault(doc.visibility, Str(<<"private">>)),
   questions |-> [i \in 1..Len(doc.questions.items) |-> serverQuestionData(doc.questions.items[i])]]

(***************************************************************************)
(* The documents drawn.  QuestionDoc gives the keys of a question object;  *)
(* a key a document leaves out is Undef.                                   *)
(***************************************************************************)
QuestionDoc(id, type, options, correctAnswer, correctAnswers, acceptedAnswers) ==
  [id |-> id, type |-> Str(<<type>>), prompt |-> Str(<<"Prompt">>), required |-> Undef,
   points |-> Undef, explanation |-> Undef, options |-> options,
   correctAnswer |-> correctAnswer, correctAnswers |-> correctAnswers,
   acceptedAnswers |-> acceptedAnswers]

QuizDoc(id, title, questionDocs) ==
  [id |-> id, title |-> title, description |-> Undef, timeLimitSeconds |-> Undef,
   passingScore |-> Undef, shuffleQuestions |-> Undef, shuffleOptions |-> Undef,
   showQuestionList |-> Undef, allowSkip |-> Undef, enforceRequiredBeforeSubmit |-> Undef,
   visibility |-> Undef, questions |-> questionDocs]


\* question objects of each variant, well-formed and not
SingleDocs(id) ==
  { QuestionDoc(id, "multiple_choice_single", o, c, Undef, Undef) :
      o \in {Arr(<< <<"A">>, <<"B">> >>), Arr(<< <<"A">>, <<"A">> >>), Arr(<< <<"A">> >>)},
      c \in {Str(<<"A">>), Str(<<"C">>), Str(<<>>)} }

MultiDocs(id) ==
  { QuestionDoc(id, "multiple_choice_multi", o, Undef, c, Undef) :
      o \in {Arr(<< <<"A">>, <<"B">>, <<"C">> >>), Arr(<< <<"B">>, <<"B">> >>),
             Arr(<< <<"B">>, <<"C">> >>)},
      c \in {Arr(<< <<"A">>, <<"B">> >>), Arr(<< <<"B">>, <<"A">> >>),
             Arr(<< <<"A">>, <<"A">> >>), Arr(<<>>)} }

TrueFalseDocs(id) ==
  { QuestionDoc(id, "true_false", Undef, c, Undef, Undef) :
      c \in {Bool(TRUE), Bool(FALSE), Str(<<"t", "r", "u", "e">>), Undef} }

ShortTextDocs(id) ==
  { QuestionDoc(id, "short_text", Undef, Undef, Undef, c) :
      c \in {Arr(<< <<"A">> >>), Arr(<< <<" ", "a", " ">>, <<"b">> >>), Arr(<< <<" ">> >>),
             Arr(<< <<"t", "r", "u", "e">> >>), Arr(<<>>), Arr(<< <<>> >>)} }

QuestionDocs(id) ==
  SingleDocs(id) \cup MultiDocs(id) \cup TrueFalseDocs(id) \cup ShortTextDocs(id)
    \cup {QuestionDoc(id, "essay", Undef, Undef, Undef, Undef)}

(***************************************************************************)
(* GradeSpec: the two scoring functions applied to every question object   *)
(* both schemas accept, under answers of every type of the answer map.     *)
(* The server stores a question with its defaults (required, points 1)     *)
(* and the client scores the questions the server returns.                 *)
(***************************************************************************)
MaxGraded == 1

\* the question a schema-valid question object becomes, with id i
GradeQuestion(i, d) ==
  [id |-> i, type |-> d.type.s[1],
   required |-> serverQuestionData(d).required, points |-> serverQuestionData(d).points,
   options |-> variantData(d).options, correctAnswer |-> variantData(d).correctAnswer,
   correctAnswers |-> variantData(d).correctAnswers,
   acceptedAnswers |-> variantData(d).acceptedAnswers]

\* the question objects both schemas accept
GradeDocs == {d \in QuestionDocs(Undef) : HasVariant(d) /\ variantIssues(d) = <<>>}

GradeVals ==
  { Undef, Null, Bool(TRUE), Bool(FALSE),
    Str(<<>>), Str(<<" ">>), Str(<<"A">>), Str(<<"a">>), Str(<<" ", "A", " ">>), Str(<<"B">>),
    Str(<<"A", ",", "B">>), Str(<<"t", "r", "u", "e">>), Str(<<"T", "r", "u", "e">>),
    Arr(<<>>), Arr(<< <<"A">> >>), Arr(<< <<"A">>, <<"A">> >>), Arr(<< <<"A">>, <<"B">> >>),
    Arr(<< <<"B">>, <<"A">> >>), Arr(<< <<"A">>, <<"A">>, <<"B">> >>), Arr(<< <<"B">>, <<"C">> >>),
    Arr(<< <<"t", "r", "u", "e">> >>) }

GradeInit ==
  /\ ServerUnused
  /\ reqs = <<>>
  /\ runner = <<>>
  /\ \E n \in 1..MaxGraded :
       \E docs \in [1..n -> GradeDocs], ans \in [1..n -> GradeVals] :
         sc = [phase |-> "input",
               questions |-> [i \in 1..n |-> GradeQuestion(i, docs[i])],
               answers |-> ans,
               passingScore |-> NULL,
               server |-> NotScored,
               client |-> NotScored]

GradeSpec == GradeInit /\ [][ScoreNext]_vars

\* the set of elements of a sequence
Elements(xs) == {xs[i] : i \in 1..Len(xs)}

\* C13: a multiple_choice_multi question is graded correct exactly when the
\* set of elements of the answer equals the set of elements of
\* correctAnswers, whatever the order and the repetitions in either; an
\* answer that is not a sequence counts as the empty set.
C13_MultiIsSetEquality ==
  sc.phase = "scored" =>
    \A i \in 1..Len(sc.questions) :
      sc.questions[i].type = "multiple_choice_multi" =>
        LET answerSet == IF sc.answers[i].t = "arr" THEN Elements(sc.answers[i].a) ELSE {}
            correct == (answerSet = Elements(sc.questions[i].correctAnswers))
        IN  /\ sc.server.perQuestion[i].isCorrect = correct
            /\ sc.client.perQuestion[i].isCorrect = correct


\* the text of s from its first to its last character that is not a space,
\* in lower case
Normalized(s) ==
  LET kept == {i \in 1..Len(s) : s[i] # " "}
  IN  IF kept = {} THEN <<>>
      ELSE LET first == CHOOSE i \in kept : \A j \in kept : i <= j
               last == CHOOSE i \in kept : \A j \in kept : j <= i
           IN  [k \in 1..(last - first + 1) |-> LowerChar(s[first + k - 1])]

\* the answer as a string, an absent or null answer being the empty string
Coerced(answer) == IF answer.t \in {"undef", "null"} THEN <<>> ELSE String(answer)

\* C14: a short_text question is graded correct exactly when the answer,
\* coerced to a string, trimmed and lower-cased, equals some acceptedAnswers
\* entry trimmed and lower-cased; so the grade does not depend on the case
\* or the surrounding spaces of the answer or of the accepted entries.
C14_ShortTextNormalized ==
  sc.phase = "scored" =>
    \A i \in 1..Len(sc.questions) :
      sc.questions[i].type = "short_text" =>
        LET correct == \E accepted \in Elements(sc.questions[i].acceptedAnswers) :
                         Normalized(accepted) = Normalized(Coerced(sc.answers[i]))
        IN  /\ sc.server.perQuestion[i].isCorrect = correct
            /\ sc.client.perQuestion[i].isCorrect = correct

\* C14's case: the answer " A " matches the accepted entry " a " only after
\* both are trimmed and lower-cased.
C14_Witness ==
  /\ sc.phase = "scored"
  /\ \E i \in 1..Len(sc.questions) :
       /\ sc.questions[i].type = "short_text"
       /\ sc.questions[i].acceptedAnswers = << <<" ", "a", " ">>, <<"b">> >>
       /\ sc.answers[i] = Str(<<" ", "A", " ">>)
       /\ sc.server.perQuestion[i].isCorrect
       /\ sc.client.perQuestion[i].isCorrect


\* C15: for every question of a schema-valid quiz an absent or null answer
\* is graded incorrect with score 0, in both scoring functions.
C15_AbsentIsIncorrect ==
  sc.phase = "scored" =>
    \A i \in 1..Len(sc.questions) :
      sc.answers[i].t \in {"undef", "null"} =>
        /\ ~sc.server.perQuestion[i].isCorrect
        /\ sc.server.perQuestion[i].earnedPoints = 0
        /\ ~sc.client.perQuestion[i].isCorrect
        /\ sc.client.perQuestion[i].score = 0


(***************************************************************************)
(* Claims checked under ScoreSpec on whole quizzes.                        *)
(***************************************************************************)
\* the answer is the correct one under the rule of the question's variant
AnsweredCorrectly(question, answer) ==
  CASE question.type \in {"multiple_choice_single", "true_false"} ->
         answer = question.correctAnswer
    [] question.type = "multiple_choice_multi" ->
         /\ answer.t = "arr"
         /\ Len(answer.a) = Len(question.correctAnswers)
         /\ \E p \in [1..Len(answer.a) -> 1..Len(answer.a)] :
              /\ \A i, j \in 1..Len(answer.a) : p[i] = p[j] => i = j
              /\ \A i \in 1..Len(answer.a) : answer.a[i] = question.correctAnswers[p[i]]
    [] OTHER ->
         /\ answer.t = "str"
         /\ \E accepted \in Elements(question.acceptedAnswers) :
              Normalized(accepted) = Normalized(answer.s)

\* C16: when every question of a quiz is answered correctly under its
\* variant's rule, scoreQuiz returns every isCorrect true, totalScore equal
\* to maxScore and percentage 100.
C16_AllCorrectIsFull ==
  (/\ sc.phase = "scored"
   /\ \A i \in 1..Len(sc.questions) : AnsweredCorrectly(sc.questions[i], sc.answers[i])) =>
    /\ \A i \in 1..Len(sc.questions) : sc.client.perQuestion[i].isCorrect
    /\ sc.client.totalScore = sc.client.maxScore
    /\ sc.client.percentage = 100


(***************************************************************************)
(* NormalizeSpec: normalizeQuiz applied to a validated quiz, every outcome *)
(* of Math.random included, and scoreQuiz applied to the quiz and to the   *)
(* normalized quiz under the same answer map.                              *)
(***************************************************************************)
MaxShuffled == 2

\* a condition on an optional boolean: undefined and false are falsy
Truthy(v) == v.t = "bool" /\ v.b

Swap(xs, i, j) == [xs EXCEPT ![i] = xs[j], ![j] = xs[i]]

\* the loop of shuffleArray from index i down (indices from 1 here): j is
\* Math.floor(Math.random() * (i + 1)), any index up to i
RECURSIVE ShuffleFrom(_, _)
ShuffleFrom(copy, i) ==
  IF i <= 1 THEN {copy}
  ELSE UNION {ShuffleFrom(Swap(copy, i, j), i - 1) : j \in 1..i}

\* the loop overwriting copy[i] instead of swapping
RECURSIVE OverwriteFrom(_, _)
OverwriteFrom(copy, i) ==
  IF i <= 1 THEN {copy}
  ELSE UNION {OverwriteFrom([copy EXCEPT ![i] = copy[j]], i - 1) : j \in 1..i}

shuffleArrayOverwriting(items) == OverwriteFrom(items, Len(items))

\* the arrays shuffleArray(items) may return
shuffleArray(items) == ShuffleFrom(items, Len(items))

\* the callback of questions.map in normalizeQuiz: the questions it may return
normalizedQuestion(quiz, question) ==
  IF Truthy(quiz.shuffleOptions) /\ question.type \in ChoiceTypes
  THEN {[question EXCEPT !.options = o] : o \in shuffleArray(question.options)}
  ELSE {question}

RECURSIVE normalizedQuestions(_, _)
normalizedQuestions(quiz, qs) ==
  IF qs = <<>> THEN {<<>>}
  ELSE {<<h>> \o t : h \in normalizedQuestion(quiz, Head(qs)),
                     t \in normalizedQuestions(quiz, Tail(qs))}

\* the quizzes normalizeQuiz(quiz) may return
normalizeQuiz(quiz) ==
  LET orders == IF Truthy(quiz.shuffleQuestions) THEN shuffleArray(quiz.questions)
                ELSE {quiz.questions}
  IN  {[quiz EXCEPT !.questions = nqs] :
         nqs \in UNION {normalizedQuestions(quiz, qs) : qs \in orders}}

NormalizeIds == {Str(<<"q1">>), Str(<<"q2">>)}

\* question objects of the four variants, as in the validQuiz of the tests
NormalizeDocs ==
  UNION {{ QuestionDoc(id, "multiple_choice_single", Arr(<< <<"A">>, <<"B">> >>),
                       Str(<<"A">>), Undef, Undef),
           QuestionDoc(id, "true_false", Undef, Bool(TRUE), Undef, Undef),
           QuestionDoc(id, "multiple_choice_multi", Arr(<< <<"A">>, <<"B">>, <<"C">> >>),
                       Undef, Arr(<< <<"A">>, <<"B">> >>), Undef),
           QuestionDoc(id, "short_text", Undef, Undef, Undef, Arr(<< <<"A">> >>)) } :
         id \in NormalizeIds}

RECURSIVE SeqsUpTo(_, _)
SeqsUpTo(S, n) ==
  IF n = 0 THEN {<<>>}
  ELSE SeqsUpTo(S, n - 1) \cup {<<x>> \o xs : x \in S, xs \in {ys \in SeqsUpTo(S, n - 1) : Len(ys) = n - 1}}

NormalizeQuizDocs ==
  { [QuizDoc(Str(<<"sample">>), Str(<<"Sample Quiz">>), Docs(qs))
       EXCEPT !.shuffleQuestions = sq, !.shuffleOptions = so, !.passingScore = Num(50)] :
      qs \in SeqsUpTo(NormalizeDocs, MaxShuffled),
      sq \in {Bool(TRUE), Bool(FALSE)}, so \in {Bool(TRUE), Undef} }

NormalizeVals == {Undef, Str(<<"A">>), Arr(<< <<"B">>, <<"A">> >>)}

NoQuizData == [id |-> <<>>, title |-> <<>>, questions |-> <<>>]

NormalizeInit ==
  /\ ServerUnused
  /\ reqs = <<>>
  /\ runner = <<>>
  /\ \E doc \in NormalizeQuizDocs, ans \in [{id.s : id \in NormalizeIds} -> NormalizeVals] :
       /\ clientQuizSchema(doc) = <<>>
       /\ sc = [phase |-> "input", quiz |-> clientQuizData(doc), answers |-> ans,
                normalized |-> NoQuizData, original |-> NotScored, shuffled |-> NotScored]

\* setQuiz(normalizeQuiz(quiz))
Normalize ==
  /\ sc.phase = "input"
  /\ \E normalized \in normalizeQuiz(sc.quiz) :
       sc' = [sc EXCEPT !.phase = "normalized", !.normalized = normalized]
  /\ UNCHANGED <<now, quizzes, questions, attempts, answers, audit_logs, res, reqs, runner>>

\* scoreQuiz applied to the quiz as validated and to the normalized quiz
ScoreBoth ==
  /\ sc.phase = "normalized"
  /\ sc' = [sc EXCEPT !.phase = "scored",
                      !.original = scoreQuiz(sc.quiz, sc.answers),
                      !.shuffled = scoreQuiz(sc.normalized, sc.answers)]
  /\ UNCHANGED <<now, quizzes, questions, attempts, answers, audit_logs, res, reqs, runner>>

NormalizeNext == Normalize \/ ScoreBoth

NormalizeSpec == NormalizeInit /\ [][NormalizeNext]_vars


\* the multiset of the elements of a sequence
BagOfSeq(xs) == [x \in Elements(xs) |-> Cardinality({i \in 1..Len(xs) : xs[i] = x})]

Orderings(n) == {p \in [1..n -> 1..n] : \A i, j \in 1..n : p[i] = p[j] => i = j}

\* the normalized quiz holds the questions of the quiz in the order p, each
\* with the same multiset of option texts
Reordered(p) ==
  \A i \in 1..Len(sc.normalized.questions) :
    /\ sc.normalized.questions[i].id = sc.quiz.questions[p[i]].id
    /\ BagOfSeq(sc.normalized.questions[i].options) = BagOfSeq(sc.quiz.questions[p[i]].options)

SameMultisets ==
  /\ Len(sc.normalized.questions) = Len(sc.quiz.questions)
  /\ BagOfSeq([i \in 1..Len(sc.normalized.questions) |-> sc.normalized.questions[i].id])
       = BagOfSeq([i \in 1..Len(sc.quiz.questions) |-> sc.quiz.questions[i].id])
  /\ \E p \in Orderings(Len(sc.quiz.questions)) : Reordered(p)

MaxDocQuestions == 2

\* the text of a string of tokens, for a template literal
RECURSIVE Text(_)
Text(s) == IF s = <<>> THEN "" ELSE Head(s) \o Text(Tail(s))

\* the first data.questions.forEach of validateQuiz: the warnings question i adds
firstPassWarnings(qs, i) ==
  (IF \E j \in 1..(i - 1) : qs[j].id = qs[i].id
   THEN <<"Duplicate question id detected: " \o Text(qs[i].id) \o ".">> ELSE <<>>)
  \o (IF /\ qs[i].type \in ChoiceTypes
         /\ Cardinality(Elements(qs[i].options)) # Len(qs[i].options)
      THEN <<"Question " \o Text(qs[i].id) \o " has repeated options.">> ELSE <<>>)

\* validateQuiz's second forEach, with no warning for multiple_choice_multi
secondPassSingleOnly(qs, i) ==
  IF qs[i].type = "multiple_choice_single" /\ qs[i].correctAnswer.s \notin Elements(qs[i].options)
  THEN <<"Question " \o Text(qs[i].id) \o " has a correctAnswer not in options.">>
  ELSE <<>>

\* the second data.questions.forEach of validateQuiz: the warnings question i adds
secondPassWarnings(qs, i) ==
  (IF qs[i].type = "multiple_choice_single" /\ qs[i].correctAnswer.s \notin Elements(qs[i].options)
   THEN <<"Question " \o Text(qs[i].id) \o " has a correctAnswer not in options.">>
   ELSE <<>>)
  \o (IF /\ qs[i].type = "multiple_choice_multi"
         /\ \E k \in 1..Len(qs[i].correctAnswers) :
              qs[i].correctAnswers[k] \notin Elements(qs[i].options)
      THEN <<"Question " \o Text(qs[i].id) \o " has correctAnswers not in options.">>
      ELSE <<>>)

\* validateQuiz returning the parsed part of the document along with the errors
validateQuizPartial(input) ==
  LET issues == clientQuizSchema(input)
  IN  [hasData |-> input.id.t = "str" /\ input.title.t = "str" /\ input.questions.t = "arr",
       data |-> NoQuizData, errors |-> issues, warnings |-> <<>>]

\* validateQuiz(input); hasData tells whether the result has the data key
validateQuiz(input) ==
  LET issues == clientQuizSchema(input)
  IN  IF issues # <<>>
      THEN [hasData |-> FALSE, data |-> NoQuizData, errors |-> issues, warnings |-> <<>>]
      ELSE LET data == clientQuizData(input)
               qs == data.questions
           IN  [hasData |-> TRUE, data |-> data, errors |-> <<>>,
                warnings |-> Flatten([i \in 1..Len(qs) |-> firstPassWarnings(qs, i)])
                               \o Flatten([i \in 1..Len(qs) |-> secondPassWarnings(qs, i)])]

\* quizSchema.safeParse(req.body) of the server's handlers
safeParse(body) ==
  LET issues == serverQuizSchema(body)
  IN  IF issues # <<>> THEN [success |-> FALSE, data |-> NoQuizData, issues |-> issues]
      ELSE [success |-> TRUE, data |-> serverQuizData(body), issues |-> <<>>]

\* the question objects drawn: every variant with the id q1, and a few with
\* another id, a UUID, an empty id and no id
ValidateQuestionDocs ==
  QuestionDocs(Str(<<"q1">>))
    \cup { QuestionDoc(Str(<<"q2">>), "true_false", Undef, Bool(TRUE), Undef, Undef),
           QuestionDoc(Str(<<"q2">>), "multiple_choice_single", Arr(<< <<"A">>, <<"B">> >>),
                       Str(<<"A">>), Undef, Undef),
           QuestionDoc(Str(<<"00000000-0000-4000-8000-000000000001">>), "short_text",
                       Undef, Undef, Undef, Arr(<< <<"A">> >>)),
           QuestionDoc(Str(<<>>), "true_false", Undef, Bool(FALSE), Undef, Undef),
           QuestionDoc(Undef, "multiple_choice_multi", Arr(<< <<"A">>, <<"B">>, <<"C">> >>),
                       Undef, Arr(<< <<"A">>, <<"B">> >>), Undef),
           [QuestionDoc(Str(<<"q1">>), "true_false", Undef, Bool(TRUE), Undef, Undef)
              EXCEPT !.prompt = Undef] }

\* documents that set the settings and question fields of the data model that
\* the client's schema does not name
SettingsDocs ==
  { [QuizDoc(Str(<<"sample">>), Str(<<"Sample Quiz">>),
             Docs(<< [QuestionDoc(Str(<<"q1">>), "true_false", Undef, Bool(TRUE), Undef, Undef)
                        EXCEPT !.required = r, !.points = p] >>))
       EXCEPT !.allowSkip = s, !.enforceRequiredBeforeSubmit = s, !.visibility = v] :
      r \in {Undef, Bool(FALSE)}, p \in {Undef, Num(2)},
      s \in {Undef, Bool(FALSE)}, v \in {Undef, Str(<<"public">>)} }

\* the documents drawn: validQuiz of the tests with other questions, the
\* empty object, and documents with a wrong or missing top-level field
ValidateDocs ==
  { QuizDoc(Undef, Undef, NotDocs(Undef)),
    QuizDoc(Str(<<"sample">>), Str(<<"Sample Quiz">>), NotDocs(Undef)),
    QuizDoc(Str(<<"sample">>), Str(<<"Sample Quiz">>), NotDocs(Str(<<"A">>))) }
  \cup { doc \in { [QuizDoc(id, title, Docs(qs)) EXCEPT !.passingScore = p] :
                     id \in {Str(<<"sample">>), Undef},
                     title \in {Str(<<"Sample Quiz">>), Str(<<>>), Bool(TRUE)},
                     p \in {Undef, Num(101)},
                     qs \in SeqsUpTo(ValidateQuestionDocs, MaxDocQuestions) } :
           doc.passingScore = Undef \/ (doc.id # Undef /\ doc.title.t = "str" /\ doc.title.s # <<>>) }
  \cup SettingsDocs

NotValidated == [hasData |-> FALSE, data |-> NoQuizData, errors |-> <<>>, warnings |-> <<>>]

NotParsed == [success |-> FALSE, data |-> NoQuizData, issues |-> <<>>]

ValidateInit ==
  /\ ServerUnused
  /\ reqs = <<>>
  /\ runner = <<>>
  /\ \E doc \in ValidateDocs :
       sc = [doc |-> doc, validated |-> FALSE, client |-> NotValidated,
             parsed |-> FALSE, server |-> NotParsed]

\* the client validates the document (import or manual entry)
ValidateQuiz ==
  /\ ~sc.validated
  /\ sc' = [sc EXCEPT !.validated = TRUE, !.client = validateQuiz(sc.doc)]
  /\ UNCHANGED <<now, quizzes, questions, attempts, answers, audit_logs, res, reqs, runner>>

\* a create, import or update handler parses the document as its payload
ParsePayload ==
  /\ ~sc.parsed
  /\ sc' = [sc EXCEPT !.parsed = TRUE, !.server = safeParse(sc.doc)]
  /\ UNCHANGED <<now, quizzes, questions, attempts, answers, audit_logs, res, reqs, runner>>

ValidateNext == ValidateQuiz \/ ParsePayload

ValidateSpec == ValidateInit /\ [][ValidateNext]_vars


\* the defects of a document, stated on the document itself
Absent(v) == v.t = "undef"

TypeOfQuestion(q) == IF q.type.t = "str" /\ Len(q.type.s) = 1 THEN q.type.s[1] ELSE ""

QuestionsOf(doc) == IF doc.questions.t = "arr" THEN Elements(doc.questions.items) ELSE {}

\* a field that is present holds a value of another type than its declared one
WrongFieldType(doc) ==
  \/ \E v \in {doc.id, doc.title, doc.description} : ~Absent(v) /\ v.t # "str"
  \/ \E v \in {doc.timeLimitSeconds, doc.passingScore} : ~Absent(v) /\ v.t # "num"
  \/ \E v \in {doc.shuffleQuestions, doc.shuffleOptions, doc.showQuestionList} :
       ~Absent(v) /\ v.t # "bool"
  \/ doc.questions.t \notin {"undef", "arr"}
  \/ \E q \in QuestionsOf(doc) :
       \/ \E v \in {q.id, q.prompt, q.explanation} : ~Absent(v) /\ v.t # "str"
       \/ TypeOfQuestion(q) \in ChoiceTypes /\ ~Absent(q.options) /\ q.options.t # "arr"
       \/ TypeOfQuestion(q) = "multiple_choice_single"
            /\ ~Absent(q.correctAnswer) /\ q.correctAnswer.t # "str"
       \/ TypeOfQuestion(q) = "true_false"
            /\ ~Absent(q.correctAnswer) /\ q.correctAnswer.t # "bool"
       \/ TypeOfQuestion(q) = "multiple_choice_multi"
            /\ ~Absent(q.correctAnswers) /\ q.correctAnswers.t # "arr"
       \/ TypeOfQuestion(q) = "short_text"
            /\ ~Absent(q.acceptedAnswers) /\ q.acceptedAnswers.t # "arr"

MissingRequiredField(doc) ==
  \/ Absent(doc.id) \/ Absent(doc.title) \/ Absent(doc.questions)
  \/ \E q \in QuestionsOf(doc) :
       \/ Absent(q.id) \/ Absent(q.type) \/ Absent(q.prompt)
       \/ TypeOfQuestion(q) \in ChoiceTypes /\ Absent(q.options)
       \/ TypeOfQuestion(q) \in {"multiple_choice_single", "true_false"} /\ Absent(q.correctAnswer)
       \/ TypeOfQuestion(q) = "multiple_choice_multi" /\ Absent(q.correctAnswers)
       \/ TypeOfQuestion(q) = "short_text" /\ Absent(q.acceptedAnswers)

FewerThanTwoOptions(doc) ==
  \E q \in QuestionsOf(doc) :
    TypeOfQuestion(q) \in ChoiceTypes /\ q.options.t = "arr" /\ Len(q.options.a) < 2

EmptyAnswerList(doc) ==
  \E q \in QuestionsOf(doc) :
    \/ TypeOfQuestion(q) = "multiple_choice_multi" /\ q.correctAnswers = Arr(<<>>)
    \/ TypeOfQuestion(q) = "short_text" /\ q.acceptedAnswers = Arr(<<>>)

StructurallyInvalid(doc) ==
  \/ WrongFieldType(doc)
  \/ MissingRequiredField(doc)
  \/ FewerThanTwoOptions(doc)
  \/ EmptyAnswerList(doc)

IsText(v) == v.t = "str" /\ v.s # <<>>

\* an array of at least n non-empty strings
IsTexts(v, n) == v.t = "arr" /\ Len(v.a) >= n /\ \A x \in Elements(v.a) : x # <<>>

WellFormedQuestion(q) ==
  /\ IsText(q.id)
  /\ IsText(q.prompt)
  /\ Absent(q.explanation) \/ q.explanation.t = "str"
  /\ \/ TypeOfQuestion(q) = "multiple_choice_single" /\ IsTexts(q.options, 2) /\ IsText(q.correctAnswer)
     \/ TypeOfQuestion(q) = "multiple_choice_multi" /\ IsTexts(q.options, 2) /\ IsTexts(q.correctAnswers, 1)
     \/ TypeOfQuestion(q) = "true_false" /\ q.correctAnswer.t = "bool"
     \/ TypeOfQuestion(q) = "short_text" /\ IsTexts(q.acceptedAnswers, 1)

\* a structurally valid document of the client
WellFormed(doc) ==
  /\ IsText(doc.id)
  /\ IsText(doc.title)
  /\ Absent(doc.description) \/ doc.description.t = "str"
  /\ Absent(doc.timeLimitSeconds) \/ (doc.timeLimitSeconds.t = "num" /\ doc.timeLimitSeconds.a[1] > 0)
  /\ Absent(doc.passingScore)
       \/ (doc.passingScore.t = "num" /\ doc.passingScore.a[1] \in 0..MaxPassingScore)
  /\ \A v \in {doc.shuffleQuestions, doc.shuffleOptions, doc.showQuestionList} :
       Absent(v) \/ v.t = "bool"
  /\ doc.questions.t = "arr"
  /\ \A q \in QuestionsOf(doc) : WellFormedQuestion(q)

\* the positions of the questions that repeat the id of an earlier question
DuplicatedIds(doc) ==
  {i \in 1..Len(doc.questions.items) :
     \E j \in 1..(i - 1) : doc.questions.items[j].id = doc.questions.items[i].id}

\* the positions of the choice questions that list an option text twice
DuplicatedOptions(doc) ==
  {i \in 1..Len(doc.questions.items) :
     LET q == doc.questions.items[i]
     IN  /\ TypeOfQuestion(q) \in ChoiceTypes
         /\ \E k, l \in 1..Len(q.options.a) : k # l /\ q.options.a[k] = q.options.a[l]}

\* the positions of the choice questions with a correct answer that is not
\* one of their options
AnswerNotInOptions(doc) ==
  {i \in 1..Len(doc.questions.items) :
     LET q == doc.questions.items[i]
     IN  \/ TypeOfQuestion(q) = "multiple_choice_single"
              /\ \A k \in 1..Len(q.options.a) : q.options.a[k] # q.correctAnswer.s
         \/ TypeOfQuestion(q) = "multiple_choice_multi"
              /\ \E c \in Elements(q.correctAnswers.a) :
                   \A k \in 1..Len(q.options.a) : q.options.a[k] # c}

\* C19: for a structurally valid document validateQuiz returns data with
\* empty errors, and warnings is non-empty exactly when the document has a
\* duplicated question id, a choice question with a duplicated option text,
\* or a choice question whose correctAnswer or some correctAnswers entry is
\* not among its options; there is one warning per such finding, so
\* short_text and true_false questions add none about answers.
C19_WarningsExactly ==
  (sc.validated /\ WellFormed(sc.doc)) =>
    /\ sc.client.hasData
    /\ sc.client.errors = <<>>
    /\ (sc.client.warnings # <<>>) <=>
         (DuplicatedIds(sc.doc) \cup DuplicatedOptions(sc.doc) \cup AnswerNotInOptions(sc.doc)) # {}
    /\ Len(sc.client.warnings) =
         Cardinality(DuplicatedIds(sc.doc)) + Cardinality(DuplicatedOptions(sc.doc))
           + Cardinality(AnswerNotInOptions(sc.doc))

\* C19's case: a short_text question and a single-choice question that
\* repeats its id and whose correctAnswer is not an option: two warnings,
\* none for the short_text question.
C19_Witness ==
  /\ sc.validated
  /\ WellFormed(sc.doc)
  /\ Len(sc.doc.questions.items) = 2
  /\ TypeOfQuestion(sc.doc.questions.items[1]) = "short_text"
  /\ TypeOfQuestion(sc.doc.questions.items[2]) = "multiple_choice_single"
  /\ sc.client.hasData
  /\ sc.client.warnings = <<"Duplicate question id detected: q1.",
                            "Question q1 has a correctAnswer not in options.">>


\* C20: every quiz accepted by validation (validateQuiz returning data, or
\* the server's quizSchema accepting the payload) has a non-empty questions
\* sequence and a non-empty title.
C20_AcceptedIsNonEmpty ==
  /\ (sc.validated /\ sc.client.hasData) =>
       (sc.client.data.questions # <<>> /\ sc.client.data.title # <<>>)
  /\ (sc.parsed /\ sc.server.success) =>
       (sc.server.data.questions # <<>> /\ sc.server.data.title # <<>>)


\* the fields an object of the document holds
FieldsOf(d) == {f \in DOMAIN d : ~Absent(d[f])}

\* a valid quiz document of the data model: structurally valid, with at least
\* one question, the settings booleans, a visibility of the enumeration, and
\* on every question a boolean required and a positive integer points
ValidQuizDocument(doc) ==
  /\ WellFormed(doc)
  /\ doc.questions.items # <<>>
  /\ \A v \in {doc.allowSkip, doc.enforceRequiredBeforeSubmit} : Absent(v) \/ v.t = "bool"
  /\ Absent(doc.visibility)
       \/ (doc.visibility.t = "str" /\ Len(doc.visibility.s) = 1
             /\ doc.visibility.s[1] \in Visibilities)
  /\ \A q \in QuestionsOf(doc) :
       /\ Absent(q.required) \/ q.required.t = "bool"
       /\ Absent(q.points) \/ (q.points.t = "num" /\ q.points.a[1] >= 1)

\* C21: for every valid quiz document of the data model (the fields required,
\* points, allowSkip, enforceRequiredBeforeSubmit and visibility included)
\* validateQuiz returns empty errors and a data value with the fields of the
\* input: every field the document holds is a field of data, on the quiz and
\* on each question, and data has the same number of questions.
C21_RoundTrip ==
  (sc.validated /\ ValidQuizDocument(sc.doc)) =>
    /\ sc.client.errors = <<>>
    /\ sc.client.hasData
    /\ FieldsOf(sc.doc) \subseteq DOMAIN sc.client.data
    /\ Len(sc.client.data.questions) = Len(sc.doc.questions.items)
    /\ \A i \in 1..Len(sc.doc.questions.items) :
         FieldsOf(sc.doc.questions.items[i]) \subseteq DOMAIN sc.client.data.questions[i]


\* the condition under which the claim lets user u start an attempt on quiz z
StartAllowed(u, z) ==
  /\ z \in QuizIds
  /\ quizzes[z].status = "published"
  /\ quizzes[z].visibility # "private" \/ quizzes[z].owner_id = u

\* C22: start creates an attempt only when the quiz exists, is published and
\* is either not private or owned by the caller: a step that adds an attempt
\* row adds one row of such a user and quiz, and a start request in any other
\* case is refused with 403 or 404 and leaves the attempts as they were.
C22_StartOnlyWhenAllowed ==
  [][ /\ Len(attempts') > Len(attempts) =>
           /\ Len(attempts') = Len(attempts) + 1
           /\ StartAllowed(attempts'[Len(attempts')].user_id, attempts'[Len(attempts')].quiz_id)
      /\ \A u \in Users, z \in QuizIds \cup {NoQuiz} :
           (StartAttempt(u, z) /\ ~StartAllowed(u, z)) =>
             (res'.status \in {403, 404} /\ attempts' = attempts)
      /\ \A u \in Users, z \in QuizIds \cup {NoQuiz} :
           (StartAttempt(u, z) /\ StartAllowed(u, z)) =>
             (res'.status = 201 /\ Len(attempts') = Len(attempts) + 1)
    ]_vars

\* C22's case: the owner has started an attempt on their private quiz, which
\* another user is refused.
C22_Witness ==
  /\ res = Response("start", 201, "created")
  /\ Len(attempts) = 1
  /\ attempts[1].user_id = "owner"
  /\ quizzes[attempts[1].quiz_id].visibility = "private"
  /\ ~StartAllowed("p1", attempts[1].quiz_id)


(***************************************************************************)
(* The ZodError of the server's quizSchema: each issue with the path of    *)
(* the value it is about, and the 400 response handleZodError makes of it. *)
(***************************************************************************)
\* the issues of a schema applied to the value at a path
At(path, issues) == [i \in 1..Len(issues) |-> [path |-> path, message |-> issues[i]]]

\* z.array(z.string().min(1)).min(min, message) at a path: the issue of the
\* array, then those of its elements at path.index
zStringArrayAt(path, v, min, message) ==
  IF v.t # "arr" THEN At(path, <<InvalidType("array", v)>>)
  ELSE At(path, IF Len(v.a) < min THEN <<message>> ELSE <<>>)
       \o Flatten([i \in 1..Len(v.a) |->
                     At(path \o <<ToString(i - 1)>>,
                        IF Len(v.a[i]) < 1 THEN <<TooShort>> ELSE <<>>)])

\* the fields a variant adds to the common ones
variantErrors(path, d) ==
  CASE d.type.s[1] = "multiple_choice_single" ->
         zStringArrayAt(path \o <<"options">>, d.options, 2, "Provide at least 2 options.")
           \o At(path \o <<"correctAnswer">>, zStringMin1(d.correctAnswer, TooShort))
    [] d.type.s[1] = "multiple_choice_multi" ->
         zStringArrayAt(path \o <<"options">>, d.options, 2, "Provide at least 2 options.")
           \o zStringArrayAt(path \o <<"correctAnswers">>, d.correctAnswers, 1,
                             "Provide at least 1 correct answer.")
    [] d.type.s[1] = "true_false" -> At(path \o <<"correctAnswer">>, zBoolean(d.correctAnswer))
    [] OTHER -> zStringArrayAt(path \o <<"acceptedAnswers">>, d.acceptedAnswers, 1,
                               "Provide at least 1 accepted answer.")

\* the issues of the question object at questions[index]
serverQuestionErrors(path, d) ==
  IF ~HasVariant(d) THEN At(path \o <<"type">>, <<InvalidDiscriminator>>)
  ELSE At(path \o <<"id">>, zOptional(d.id, zUuid(d.id)))
         \o At(path \o <<"prompt">>, zStringMin1(d.prompt, "Prompt is required."))
         \o At(path \o <<"required">>, zOptional(d.required, zBoolean(d.required)))
         \o At(path \o <<"points">>, zOptional(d.points, zPoints(d.points)))
         \o At(path \o <<"explanation">>, zOptional(d.explanation, zString(d.explanation)))
         \o variantErrors(path, d)

\* parse.error.errors of quizSchema.safeParse(req.body)
serverQuizErrors(doc) ==
  At(<<"id">>, zOptional(doc.id, zString(doc.id)))
    \o At(<<"title">>, zStringMin1(doc.title, "Quiz title is required."))
    \o At(<<"description">>, zOptional(doc.description, zString(doc.description)))
    \o At(<<"timeLimitSeconds">>, zOptional(doc.timeLimitSeconds, zPositiveInt(doc.timeLimitSeconds)))
    \o At(<<"passingScore">>, zOptional(doc.passingScore, zPassingScore(doc.passingScore)))
    \o At(<<"shuffleQuestions">>, zOptional(doc.shuffleQuestions, zBoolean(doc.shuffleQuestions)))
    \o At(<<"shuffleOptions">>, zOptional(doc.shuffleOptions, zBoolean(doc.shuffleOptions)))
    \o At(<<"showQuestionList">>, zOptional(doc.showQuestionList, zBoolean(doc.showQuestionList)))
    \o At(<<"allowSkip">>, zOptional(doc.allowSkip, zBoolean(doc.allowSkip)))
    \o At(<<"enforceRequiredBeforeSubmit">>,
          zOptional(doc.enforceRequiredBeforeSubmit, zBoolean(doc.enforceRequiredBeforeSubmit)))
    \o At(<<"visibility">>, zOptional(doc.visibility, zVisibility(doc.visibility)))
    \o (IF doc.questions.t # "arr" THEN At(<<"questions">>, <<InvalidType("array", doc.questions)>>)
        ELSE Flatten([i \in 1..Len(doc.questions.items) |->
                        serverQuestionErrors(<<"questions", ToString(i - 1)>>,
                                             doc.questions.items[i])]))

\* issue.path.join('.')
RECURSIVE join(_)
join(path) ==
  IF path = <<>> THEN ""
  ELSE IF Len(path) = 1 THEN path[1]
  ELSE path[1] \o "." \o join(Tail(path))

\* the error response sent without the details of the issues
sendErrorOnly(op, error) ==
  [op |-> op, status |-> 400, code |-> "validation_error", details |-> <<>>]

\* handleZodError(res, error): sendError(res, 400, 'Validation failed.',
\* 'validation_error', details)
handleZodError(op, error) ==
  [op |-> op, status |-> 400, code |-> "validation_error",
   details |-> [i \in 1..Len(error) |->
                  [message |-> error[i].message, field |-> join(error[i].path)]]]


(***************************************************************************)
(* ManageSpec: the quizzes router (src/server/routes/quizzes.ts), one      *)
(* request at a time: users create, import, update, publish and delete     *)
(* quizzes and read them with GET /quizzes/:id.  Quiz ids are numbered in  *)
(* order of creation and never used again.                                 *)
(***************************************************************************)
MaxQuizzes == 1

ManagedIds == 1..MaxQuizzes

\* the document of the import test: a question whose required flag is the
\* string 'yes' and whose id is not a UUID
BadQuiz ==
  QuizDoc(Undef, Str(<<"Bad quiz">>),
          Docs(<< [QuestionDoc(Str(<<"q1">>), "true_false", Undef, Bool(TRUE), Undef, Undef)
                     EXCEPT !.prompt = Str(<<"Bad question">>),
                            !.required = Str(<<"yes">>), !.points = Num(1)] >>))

\* the request bodies of create, import and update: the quiz of the RBAC
\* test with each visibility and with none, a body without a title and the
\* document of the import test
ManagePayloads ==
  { [QuizDoc(Undef, Str(<<"Draft quiz">>),
             Docs(<< QuestionDoc(Undef, "true_false", Undef, Bool(TRUE), Undef, Undef) >>))
       EXCEPT !.visibility = v] :
      v \in {Undef, Str(<<"private">>), Str(<<"unlisted">>), Str(<<"public">>)} }
    \cup { QuizDoc(Undef, Undef, Docs(<<>>)), BadQuiz }

\* the quiz ids given out so far (randomUUID() never repeats one)
CreatedIds == {e[2] : e \in {l \in audit_logs : l[1] \in {"quiz_create", "quiz_import"}}}

\* the row createQuiz inserts into quizzes
CreatedRow(ownerId, data) ==
  [owner_id |-> ownerId, status |-> "draft",
   visibility |-> Coalesce(data.visibility, Str(<<"private">>)).s[1],
   settings_json |-> [timeLimitSeconds |-> data.timeLimitSeconds,
                      passingScore |-> data.passingScore,
                      allowSkip |-> data.allowSkip.b,
                      showQuestionList |-> data.showQuestionList,
                      enforceRequiredBeforeSubmit |-> data.enforceRequiredBeforeSubmit.b]]

\* the response of GET /quizzes/:id, with the reader, the quiz asked for and
\* the questions (correct answers included) of the body
QuizResponse(u, z, status, code, body) ==
  [op |-> "get_quiz", status |-> status, code |-> code, user |-> u, quiz |-> z,
   questions |-> body]

ManageInit ==
  /\ ServerIdle
  /\ quizzes = <<>>
  /\ questions = <<>>
  /\ OthersIdle

\* POST /quizzes and POST /quizzes/import, which differ in the action_type
\* of the audit row
CreateQuiz(u, body, actionType) ==
  LET parse == safeParse(body)
      quizId == Cardinality(CreatedIds) + 1
  IN  /\ IF ~parse.success
         THEN /\ res' = handleZodError(actionType, serverQuizErrors(body))
              /\ UNCHANGED <<quizzes, questions, audit_logs>>
         ELSE /\ quizId <= MaxQuizzes
              /\ quizzes' = [z \in DOMAIN quizzes \cup {quizId} |->
                               IF z = quizId THEN CreatedRow(u, parse.data) ELSE quizzes[z]]
              /\ questions' = [z \in DOMAIN questions \cup {quizId} |->
                                 IF z = quizId THEN parse.data.questions ELSE questions[z]]
              /\ audit_logs' = AuditLog(audit_logs, actionType, quizId)
              /\ res' = Response(actionType, 201, "created")
      /\ UNCHANGED <<now, attempts, answers, reqs, runner, sc>>

\* PUT /quizzes/:id
UpdateQuiz(u, z, body) ==
  LET parse == safeParse(body)
  IN  /\ IF ~parse.success
         THEN /\ res' = handleZodError("quiz_update", serverQuizErrors(body))
              /\ UNCHANGED <<quizzes, questions, audit_logs>>
         ELSE IF z \notin DOMAIN quizzes \/ quizzes[z].owner_id # u
         THEN /\ res' = Response("quiz_update", 404, "not_found")
              /\ UNCHANGED <<quizzes, questions, audit_logs>>
         ELSE /\ quizzes' =
                   [quizzes EXCEPT ![z] =
                      [CreatedRow(u, parse.data) EXCEPT
                         !.status = quizzes[z].status,
                         !.visibility = Coalesce(parse.data.visibility,
                                                 Str(<<quizzes[z].visibility>>)).s[1]]]
              /\ questions' = [questions EXCEPT ![z] = parse.data.questions]
              /\ audit_logs' = AuditLog(audit_logs, "quiz_update", z)
              /\ res' = Response("quiz_update", 200, "ok")
      /\ UNCHANGED <<now, attempts, answers, reqs, runner, sc>>

\* the publish handler without the test of the owner
PublishQuizAnyUser(u, z) ==
  /\ IF z \notin DOMAIN quizzes
     THEN /\ res' = Response("quiz_publish", 404, "not_found")
          /\ UNCHANGED <<quizzes, audit_logs>>
     ELSE /\ quizzes' = [quizzes EXCEPT ![z].status = "published"]
          /\ audit_logs' = AuditLog(audit_logs, "quiz_publish", z)
          /\ res' = Response("quiz_publish", 200, "ok")
  /\ UNCHANGED <<now, questions, attempts, answers, reqs, runner, sc>>

\* POST /quizzes/:id/publish
PublishQuiz(u, z) ==
  /\ IF z \notin DOMAIN quizzes \/ quizzes[z].owner_id # u
     THEN /\ res' = Response("quiz_publish", 404, "not_found")
          /\ UNCHANGED <<quizzes, audit_logs>>
     ELSE /\ quizzes' = [quizzes EXCEPT ![z].status = "published"]
          /\ audit_logs' = AuditLog(audit_logs, "quiz_publish", z)
          /\ res' = Response("quiz_publish", 200, "ok")
  /\ UNCHANGED <<now, questions, attempts, answers, reqs, runner, sc>>

\* DELETE /quizzes/:id; the questions go with the quiz (ON DELETE CASCADE)
DeleteQuiz(u, z) ==
  /\ IF z \notin DOMAIN quizzes \/ quizzes[z].owner_id # u
     THEN /\ res' = Response("quiz_delete", 404, "not_found")
          /\ UNCHANGED <<quizzes, questions, audit_logs>>
     ELSE /\ quizzes' = [y \in DOMAIN quizzes \ {z} |-> quizzes[y]]
          /\ questions' = [y \in DOMAIN questions \ {z} |-> questions[y]]
          /\ audit_logs' = AuditLog(audit_logs, "quiz_delete", z)
          /\ res' = Response("quiz_delete", 200, "ok")
  /\ UNCHANGED <<now, attempts, answers, reqs, runner, sc>>

\* GET /quizzes/:id refusing a reader who is not the owner only while the
\* quiz is not published
GetQuizPublishedOnly(u, z) ==
  /\ IF z \notin DOMAIN quizzes
     THEN res' = QuizResponse(u, z, 404, "not_found", <<>>)
     ELSE IF quizzes[z].owner_id # u /\ quizzes[z].status # "published"
     THEN res' = QuizResponse(u, z, 403, "forbidden", <<>>)
     ELSE res' = QuizResponse(u, z, 200, "ok", questions[z])
  /\ UNCHANGED <<now, quizzes, questions, attempts, answers, audit_logs, reqs, runner, sc>>

\* GET /quizzes/:id
GetQuiz(u, z) ==
  /\ IF z \notin DOMAIN quizzes
     THEN res' = QuizResponse(u, z, 404, "not_found", <<>>)
     ELSE LET isOwner == u = quizzes[z].owner_id
          IN  IF ~isOwner /\ quizzes[z].status # "published"
              THEN res' = QuizResponse(u, z, 403, "forbidden", <<>>)
              ELSE IF ~isOwner /\ quizzes[z].visibility = "private"
              THEN res' = QuizResponse(u, z, 403, "forbidden", <<>>)
              ELSE res' = QuizResponse(u, z, 200, "ok", questions[z])
  /\ UNCHANGED <<now, quizzes, questions, attempts, answers, audit_logs, reqs, runner, sc>>

ManageNext ==
  \/ \E u \in Users, body \in ManagePayloads, actionType \in {"quiz_create", "quiz_import"} :
       CreateQuiz(u, body, actionType)
  \/ \E u \in Users, z \in ManagedIds, body \in ManagePayloads : UpdateQuiz(u, z, body)
  \/ \E u \in Users, z \in ManagedIds : PublishQuiz(u, z)
  \/ \E u \in Users, z \in ManagedIds : DeleteQuiz(u, z)
  \/ \E u \in Users, z \in ManagedIds : GetQuiz(u, z)

ManageSpec == ManageInit /\ [][ManageNext]_vars

\* C23: a user who is not the owner of a quiz never reads it through
\* GET /quizzes/:id while the quiz is a draft or its visibility is private:
\* the answer to such a request is 403 and carries no questions, in every
\* state reachable by create, import, update, publish and delete.
C23_NonOwnerNeverReadsHidden ==
  (/\ res.op = "get_quiz"
   /\ res.quiz \in DOMAIN quizzes
   /\ res.user # quizzes[res.quiz].owner_id
   /\ quizzes[res.quiz].status # "published" \/ quizzes[res.quiz].visibility = "private")
    => (res.status = 403 /\ res.questions = <<>>)

\* C23's case: a quiz that was published and then updated to private, which a
\* user who is not its owner has just been refused.
C23_Witness ==
  /\ res.op = "get_quiz"
  /\ res.status = 403
  /\ res.quiz \in DOMAIN quizzes
  /\ res.user # quizzes[res.quiz].owner_id
  /\ quizzes[res.quiz].status = "published"
  /\ quizzes[res.quiz].visibility = "private"
  /\ <<"quiz_update", res.quiz>> \in audit_logs


(***************************************************************************)
(* StartSpec: start handlers whose awaited queries interleave, beside      *)
(* answer requests on the attempts already started.  The attempts table is *)
(* keyed by the attempt id, which randomUUID() draws fresh.                *)
(***************************************************************************)
MaxStarts == 2

StartRequest(u, z) == [user |-> u, quiz |-> z, pc |-> "fetch", attemptId |-> NULL, status |-> 0]

\* the attempt ids drawn so far
DrawnIds == {reqs[r].attemptId : r \in DOMAIN reqs} \ {NULL}

\* randomUUID(): an id no earlier call returned
randomUUID == Cardinality(DrawnIds) + 1

\* INSERT INTO attempts that first removes the caller's attempts on the quiz
InsertAttemptReplacing(att, a, z, u) ==
  LET kept == {b \in DOMAIN att : ~(att[b].quiz_id = z /\ att[b].user_id = u)}
  IN  [b \in kept \cup {a} |-> IF b = a THEN AttemptRow(z, u, now) ELSE att[b]]

\* INSERT INTO attempts (id, quiz_id, user_id, started_at) VALUES ($1, $2, $3, NOW())
InsertAttempt(att, a, z, u) ==
  [b \in DOMAIN att \cup {a} |-> IF b = a THEN AttemptRow(z, u, now) ELSE att[b]]

RespondStart(r, status, code) ==
  /\ reqs' = [reqs EXCEPT ![r].pc = "done", ![r].status = status]
  /\ res' = Response("start", status, code)

ReceiveStart(u, z) ==
  /\ Len(reqs) < MaxStarts
  /\ reqs' = Append(reqs, StartRequest(u, z))
  /\ UNCHANGED <<now, quizzes, questions, attempts, answers, audit_logs, res, runner, sc>>

\* fetchQuizWithQuestions, the checks of status and visibility, and randomUUID()
FetchForStart(r) ==
  LET quizData == fetchQuizWithQuestions(reqs[r].quiz)
  IN  /\ reqs[r].pc = "fetch"
      /\ IF ~quizData.found
         THEN RespondStart(r, 404, "not_found")
         ELSE IF quizData.quiz.status # "published"
         THEN RespondStart(r, 403, "forbidden")
         ELSE IF quizData.quiz.visibility = "private" /\ quizData.quiz.owner_id # reqs[r].user
         THEN RespondStart(r, 403, "forbidden")
         ELSE /\ reqs' = [reqs EXCEPT ![r].pc = "insert", ![r].attemptId = randomUUID]
              /\ UNCHANGED res
      /\ UNCHANGED <<now, quizzes, questions, attempts, answers, audit_logs, runner, sc>>

\* INSERT INTO attempts; the primary key refuses an id the table holds
InsertAttemptStep(r) ==
  /\ reqs[r].pc = "insert"
  /\ IF reqs[r].attemptId \in DOMAIN attempts
     THEN /\ RespondStart(r, 500, "server_error")
          /\ UNCHANGED attempts
     ELSE /\ attempts' = InsertAttempt(attempts, reqs[r].attemptId, reqs[r].quiz, reqs[r].user)
          /\ reqs' = [reqs EXCEPT ![r].pc = "audit"]
          /\ UNCHANGED res
  /\ UNCHANGED <<now, quizzes, questions, answers, audit_logs, runner, sc>>

\* INSERT INTO audit_logs ... 'attempt_started'
AuditStartStep(r) ==
  /\ reqs[r].pc = "audit"
  /\ audit_logs' = AuditLog(audit_logs, "attempt_started", reqs[r].attemptId)
  /\ reqs' = [reqs EXCEPT ![r].pc = "respond"]
  /\ UNCHANGED <<now, quizzes, questions, attempts, answers, res, runner, sc>>

\* res.status(201).json({ attemptId })
RespondCreated(r) ==
  /\ reqs[r].pc = "respond"
  /\ RespondStart(r, 201, "created")
  /\ UNCHANGED <<now, quizzes, questions, attempts, answers, audit_logs, runner, sc>>

\* the answer request a participant sends while others start
StartAnswerPayloads == { << <<1, Str(<<"A">>)>> >> }

StartNext ==
  \/ \E u \in Users, z \in QuizIds \cup {NoQuiz} : ReceiveStart(u, z)
  \/ \E r \in DOMAIN reqs : FetchForStart(r)
  \/ \E r \in DOMAIN reqs : InsertAttemptStep(r)
  \/ \E r \in DOMAIN reqs : AuditStartStep(r)
  \/ \E r \in DOMAIN reqs : RespondCreated(r)
  \/ \E u \in Users, a \in 1..MaxStarts, entries \in StartAnswerPayloads :
       RecordAnswer(u, a, entries)

StartSpec == Init /\ [][StartNext]_vars

\* the start requests answered 201
Started == {r \in DOMAIN reqs : reqs[r].pc = "done" /\ reqs[r].status = 201}

\* every start answered 201 has its own attempt row, of its user and quiz
OwnAttemptEach ==
  /\ \A r \in Started :
       /\ reqs[r].attemptId \in DOMAIN attempts
       /\ attempts[reqs[r].attemptId].user_id = reqs[r].user
       /\ attempts[reqs[r].attemptId].quiz_id = reqs[r].quiz
  /\ \A r1, r2 \in Started : r1 # r2 => reqs[r1].attemptId # reqs[r2].attemptId

\* C24: every successful start creates exactly one new attempt, with an id
\* no existing attempt has, IN_PROGRESS and without stored answers, and
\* leaves every existing attempt unchanged; starts answered 201 (by the same
\* user on the same quiz, one after the other or concurrently) each have
\* their own attempt.
C24_StartCreatesOneAttempt ==
  [][ /\ (DOMAIN attempts' # DOMAIN attempts) =>
           /\ DOMAIN attempts \subseteq DOMAIN attempts'
           /\ Cardinality(DOMAIN attempts' \ DOMAIN attempts) = 1
           /\ \A a \in DOMAIN attempts' \ DOMAIN attempts :
                /\ attempts'[a].submitted_at = NULL
                /\ attempts'[a].score = NULL
                /\ RowsOfAttempt(answers', a) = {}
           /\ \A b \in DOMAIN attempts : attempts'[b] = attempts[b]
      /\ OwnAttemptEach'
    ]_vars

\* C24's case: two start requests of the same user for the same quiz that
\* ran concurrently (the second drew its id first), both answered 201, with
\* two attempts.
C24_Witness ==
  /\ Len(reqs) = 2
  /\ Started = {1, 2}
  /\ reqs[1].user = reqs[2].user
  /\ reqs[1].quiz = reqs[2].quiz
  /\ reqs[1].attemptId = 2
  /\ reqs[2].attemptId = 1
  /\ DOMAIN attempts = {1, 2}
  /\ attempts[1].submitted_at = NULL
  /\ attempts[2].submitted_at = NULL


(***************************************************************************)
(* AccessSpec: the attempt API of Spec with the requests that read: the    *)
(* detail of an attempt (GET /attempts/:attemptId) and a quiz's attempts   *)
(* with their summary (GET /quizzes/:id/attempts).                         *)
(***************************************************************************)
\* the response of GET /attempts/:attemptId, with the reader, the attempt
\* asked for and the answer rows of the body
AttemptResponse(u, a, status, code, rows) ==
  [op |-> "get_attempt", status |-> status, code |-> code, user |-> u, attempt |-> a,
   answers |-> rows]

\* GET /attempts/:attemptId answering whoever asks
GetAttemptAnyUser(u, a) ==
  /\ IF ~AttemptExists(a)
     THEN res' = AttemptResponse(u, a, 404, "not_found", {})
     ELSE res' = AttemptResponse(u, a, 200, "ok", RowsOfAttempt(answers, a))
  /\ UNCHANGED <<now, quizzes, questions, attempts, answers, audit_logs, reqs, runner, sc>>

\* GET /attempts/:attemptId
GetAttempt(u, a) ==
  /\ IF ~AttemptExists(a)
     THEN res' = AttemptResponse(u, a, 404, "not_found", {})
     ELSE IF attempts[a].user_id # u /\ quizzes[attempts[a].quiz_id].owner_id # u
     THEN res' = AttemptResponse(u, a, 403, "forbidden", {})
     ELSE res' = AttemptResponse(u, a, 200, "ok", RowsOfAttempt(answers, a))
  /\ UNCHANGED <<now, quizzes, questions, attempts, answers, audit_logs, reqs, runner, sc>>

\* the bodies of the answer and submit requests: the required question
\* answered, and nothing answered
AccessAnswerPayloads == { << <<1, Str(<<"A">>)>> >>, << <<1, Str(<<"B">>)>> >> }

AccessSubmitPayloads ==
  { [q \in 1..2 |-> IF q = 1 THEN Str(<<"A">>) ELSE Undef], [q \in 1..2 |-> Undef] }

\* the users who may read attempt a: its user and the owner of its quiz
Readers(a) == {attempts[a].user_id, quizzes[attempts[a].quiz_id].owner_id}

\* the last response, when it answers a request for an attempt's detail
DetailOnlyToReaders ==
  (res.op = "get_attempt" /\ res.attempt \in DOMAIN attempts) =>
    /\ res.user \in Readers(res.attempt) => res.status = 200
    /\ res.user \notin Readers(res.attempt) => (res.status = 403 /\ res.answers = {})

attemptsOfQuiz(z) == {a \in DOMAIN attempts : attempts[a].quiz_id = z}

\* the answer rows of attempt a are one per question of the quiz, each with
\* the isCorrect and earnedPoints of perQuestion
OneGradedRowEach(a, qs, perQuestion) ==
  /\ Cardinality(RowsOfAttempt(answers, a)) = Len(qs)
  /\ \A i \in 1..Len(qs) :
       /\ Cardinality(RowsOf(answers, a, qs[i].id)) = 1
       /\ \A row \in RowsOf(answers, a, qs[i].id) :
            /\ answers[row] = 1
            /\ row.is_correct = Bool(perQuestion[i].isCorrect)
            /\ row.earned_points = perQuestion[i].earnedPoints

\* what the claim states of attempt a once answers graded as scoreResult
\* were submitted with success
StoredAsGraded(a, scoreResult) ==
  /\ attempts[a].submitted_at # NULL
  /\ attempts[a].score = scoreResult.totalScore
  /\ attempts[a].percentage = scoreResult.percentage
  /\ attempts[a].passed = Bool(scoreResult.passed)
  /\ OneGradedRowEach(a, questions[attempts[a].quiz_id], scoreResult.perQuestion)
  /\ a \in attemptsOfQuiz(attempts[a].quiz_id)

\* request r is a submit of every required answer of a published quiz
SubmitsEveryRequired(r) ==
  LET quizData == fetchQuizWithQuestions(reqs[r].attempt.quiz_id)
  IN  /\ quizData.found
      /\ quizData.quiz.status = "published"
      /\ missingRequired(quizData.questions, reqs[r].payload) = {}

\* C26: when a submit of every required answer of a published quiz is
\* answered 200, the attempt has submitted_at set, its stored score,
\* percentage and passed are those of the score result of the submitted
\* answers (the scoreResult the handler computed from them), there is exactly one answer row per question with that question's
\* isCorrect and earnedPoints, and the attempt is in the listing of the
\* quiz's attempts.
C26_SubmitStoresResult ==
  [][ \A r \in DOMAIN reqs :
        (/\ reqs[r].pc = "respond"
         /\ reqs'[r].pc = "done"
         /\ reqs'[r].status = 200
         /\ SubmitsEveryRequired(r))
          => StoredAsGraded(reqs[r].attemptId, reqs[r].scoreResult)'
    ]_vars


(***************************************************************************)
(* The summary of GET /quizzes/:id/attempts, computed from the rows the    *)
(* query returned.                                                         *)
(***************************************************************************)
\* n / d for integers 0 < d <= n < 2^13
DivideLarge(n, d) ==
  LET e == CHOOSE k \in 0..13 : d * (2^k) <= n /\ d * (2^(k + 1)) > n
      dd == d * (2^e)
      r0 == n - dd
      a == (r0 * (2^18)) \div dd
      r1 == (r0 * (2^18)) % dd
      b == (r1 * (2^18)) \div dd
      r2 == (r1 * (2^18)) % dd
      c == (r2 * (2^17)) \div dd
      r3 == (r2 * (2^17)) % dd
  IN  RoundToDouble(Double(a, b, c \div 2, e - 52), c % 2, r3 # 0)

\* Math.round(n / d) for integers n >= 0, d > 0
RoundedQuotient(n, d) ==
  IF n = 0 THEN 0
  ELSE IF n < d THEN MathRound(Divide(n, d))
  ELSE MathRound(DivideLarge(n, d))

RECURSIVE InsertNumber(_, _)
InsertNumber(x, xs) ==
  IF xs = <<>> THEN <<x>>
  ELSE IF Head(xs) <= x THEN <<Head(xs)>> \o InsertNumber(x, Tail(xs))
  ELSE <<x>> \o xs

\* xs.sort((a, b) => a - b)
RECURSIVE sortNumbers(_)
sortNumbers(xs) == IF xs = <<>> THEN <<>> ELSE InsertNumber(Head(xs), sortNumbers(Tail(xs)))

\* attempts.rows.map((row) => row.score ?? 0).sort((a, b) => a - b)
scoresOf(rows) ==
  sortNumbers([i \in 1..Len(rows) |-> IF rows[i].score = NULL THEN 0 ELSE rows[i].score])

\* attempts.rows.map((row) => row.time_taken_seconds ?? 0)
timesOf(rows) ==
  [i \in 1..Len(rows) |->
     IF rows[i].time_taken_seconds = NULL THEN 0 ELSE rows[i].time_taken_seconds]

\* attempts.rows.filter((row) => row.passed).length
passCountOf(rows) == Cardinality({i \in 1..Len(rows) : rows[i].passed = Bool(TRUE)})

\* xs.length ? Math.round(xs.reduce((sum, val) => sum + val, 0) / xs.length) : 0
roundedMean(xs) == IF Len(xs) = 0 THEN 0 ELSE RoundedQuotient(SumSeq(xs), Len(xs))

\* medianScore taking the lower of the two middle elements
medianLower(scores) ==
  IF Len(scores) = 0 THEN 0
  ELSE IF (Len(scores) % 2) = 1 THEN scores[(Len(scores) \div 2) + 1]
  ELSE scores[Len(scores) \div 2]

\* medianScore; scores[k] of the code is scores[k + 1] here
medianScore(scores) ==
  IF Len(scores) = 0 THEN 0
  ELSE IF (Len(scores) % 2) = 1 THEN scores[(Len(scores) \div 2) + 1]
  ELSE RoundedQuotient(scores[Len(scores) \div 2] + scores[(Len(scores) \div 2) + 1], 2)

\* passRate
passRate(passCount, length) ==
  IF length = 0 THEN 0
  ELSE IF passCount = 0 THEN 0
  ELSE MathRound(Times(Divide(passCount, length), 100))

\* the summary object of the response
summaryOf(rows) ==
  [attempts |-> Len(scoresOf(rows)),
   averageScore |-> roundedMean(scoresOf(rows)),
   medianScore |-> medianScore(scoresOf(rows)),
   passRate |-> passRate(passCountOf(rows), Len(scoresOf(rows))),
   averageTime |-> roundedMean(timesOf(rows))]

(***************************************************************************)
(* SummarySpec: the summary of drawn sets of attempt rows: every sequence  *)
(* of up to MaxRows rows of a few kinds, and the longer listings of up to  *)
(* MaxListed attempts of which some passed.                                *)
(***************************************************************************)
MaxRows == 3
MaxListed == 40

\* a row of attempts as submit leaves it
SubmittedRow(score, percentage, passed, timeTaken) ==
  [AttemptRow("z1", "p1", 0) EXCEPT !.submitted_at = timeTaken, !.score = score,
     !.percentage = percentage, !.passed = Bool(passed), !.time_taken_seconds = timeTaken]

\* an attempt in progress and three submitted ones
RowKinds ==
  { AttemptRow("z1", "p1", 0), SubmittedRow(1, 25, FALSE, 1),
    SubmittedRow(2, 50, TRUE, 2), SubmittedRow(4, 100, TRUE, 4) }

\* n attempts of which the first k passed
Listing(n, k) ==
  [i \in 1..n |-> IF i <= k THEN SubmittedRow(2, 100, TRUE, 1) ELSE SubmittedRow(0, 0, FALSE, 1)]

SummaryInputs ==
  SeqsUpTo(RowKinds, MaxRows) \cup UNION {{Listing(n, k) : k \in 0..n} : n \in 1..MaxListed}

NoSummary ==
  [attempts |-> 0, averageScore |-> 0, medianScore |-> 0, passRate |-> 0, averageTime |-> 0]

SummaryInit ==
  /\ ServerUnused
  /\ reqs = <<>>
  /\ runner = <<>>
  /\ \E rows \in SummaryInputs : sc = [rows |-> rows, done |-> FALSE, summary |-> NoSummary]

\* the handler computes the summary of the rows
Summarize ==
  /\ ~sc.done
  /\ sc' = [sc EXCEPT !.done = TRUE, !.summary = summaryOf(sc.rows)]
  /\ UNCHANGED <<now, quizzes, questions, attempts, answers, audit_logs, res, reqs, runner>>

SummarySpec == SummaryInit /\ [][Summarize]_vars

\* C27: medianScore is the standard median of the attempts' scores (an unset
\* score counted as 0): the middle element of the sorted scores when the
\* count is odd and the exact average of the two middle elements when it is
\* even, a half-integer when the two differ in parity.
C27_StandardMedian ==
  (sc.done /\ sc.rows # <<>>) =>
    LET scores == scoresOf(sc.rows)
        half == Len(scores) \div 2
    IN  IF (Len(scores) % 2) = 1
        THEN sc.summary.medianScore = scores[half + 1]
        ELSE 2 * sc.summary.medianScore = scores[half] + scores[half + 1]


\* C28: for a quiz with no attempts the summary has attempts, averageScore,
\* medianScore, passRate and averageTime all 0; for a non-empty set
\* averageScore and averageTime are the rounded means of the scores and the
\* times, and passRate is the rounded percentage of the attempts with
\* passed = true.
C28_SummaryValues ==
  sc.done =>
    IF sc.rows = <<>> THEN sc.summary = NoSummary
    ELSE /\ sc.summary.attempts = Len(sc.rows)
         /\ sc.summary.averageScore = RoundDiv(SumSeq(scoresOf(sc.rows)), Len(sc.rows))
         /\ sc.summary.averageTime = RoundDiv(SumSeq(timesOf(sc.rows)), Len(sc.rows))
         /\ sc.summary.passRate = RoundDiv(100 * passCountOf(sc.rows), Len(sc.rows))

(***************************************************************************)
(* The steps of AccessSpec.                                                *)
(***************************************************************************)
\* ORDER BY attempts.submitted_at DESC: NULL comes first; the order of rows
\* with equal submitted_at is not fixed by the query, and the summary does
\* not depend on it (here: by id)
RECURSIVE OrderedRows(_)
OrderedRows(ids) ==
  IF ids = {} THEN <<>>
  ELSE LET key(a) == IF attempts[a].submitted_at = NULL THEN MaxTime + 1
                     ELSE attempts[a].submitted_at
           first == CHOOSE a \in ids :
                      \A b \in ids : key(a) > key(b) \/ (key(a) = key(b) /\ a <= b)
       IN  <<attempts[first]>> \o OrderedRows(ids \ {first})

\* the response of GET /quizzes/:id/attempts, with the reader and the quiz
ListResponse(u, z, status, code, rows, summary) ==
  [op |-> "list_attempts", status |-> status, code |-> code, user |-> u, quiz |-> z,
   attempts |-> rows, summary |-> summary]

\* GET /quizzes/:id/attempts
ListAttempts(u, z) ==
  /\ IF z \notin DOMAIN quizzes \/ quizzes[z].owner_id # u
     THEN res' = ListResponse(u, z, 403, "forbidden", <<>>, NoSummary)
     ELSE LET rows == OrderedRows(attemptsOfQuiz(z))
          IN  res' = ListResponse(u, z, 200, "ok", rows, summaryOf(rows))
  /\ UNCHANGED <<now, quizzes, questions, attempts, answers, audit_logs, reqs, runner, sc>>

AccessNext ==
  \/ Tick
  \/ \E u \in Users, z \in QuizIds : StartAttempt(u, z)
  \/ \E u \in Users, a \in AttemptIds, entries \in AccessAnswerPayloads : RecordAnswer(u, a, entries)
  \/ \E u \in Users, a \in AttemptIds, payload \in AccessSubmitPayloads : SubmitAttempt(u, a, payload)
  \/ \E u \in Users, a \in AttemptIds : GetAttempt(u, a)
  \/ \E u \in Users, z \in QuizIds \cup {NoQuiz} : ListAttempts(u, z)

AccessSpec == Init /\ [][AccessNext]_vars

\* the rows of the submitted attempts of quiz z
SubmittedRowsOf(z) ==
  OrderedRows({a \in attemptsOfQuiz(z) : attempts[a].submitted_at # NULL})

\* C29: the summary of a quiz's attempts is computed over exactly the
\* attempts of that quiz that are SUBMITTED: an attempt that was started but
\* not submitted counts toward none of attempts, averageScore, medianScore,
\* passRate and averageTime.
C29_SummaryOfSubmitted ==
  (res.op = "list_attempts" /\ res.status = 200) =>
    res.summary = summaryOf(SubmittedRowsOf(res.quiz))


\* C30: in the quiz runner, in every state reachable by answering, Next,
\* Previous and question-list clicks, the participant moves from a question
\* to a later one only if that question is answered when it is required, or,
\* when it is optional, only if allowSkip is true or it is answered.
C30_NavigationGated ==
  [][ (runner.started /\ runner'.currentIndex > runner.currentIndex) =>
        IF currentQuestion.required THEN isAnswered(runner.answers[currentQuestion.id])
        ELSE (clientQuiz.allowSkip \/ isAnswered(runner.answers[currentQuestion.id]))
    ]_vars


(***************************************************************************)
(* CountdownSpec: the hook useCountdown(durationSeconds, isRunning) on its *)
(* own: the component renders it with other arguments, and the browser     *)
(* fires the interval once a second while it is set.  now counts the       *)
(* seconds since the hook was mounted and sc.elapsed those that passed     *)
(* with the interval set since timeLeft was last set to the duration.      *)
(***************************************************************************)
MaxDuration == 3

\* durationSeconds: undefined (NULL), 0 or a number of seconds
Durations == {NULL} \cup (0..MaxDuration)

\* durationSeconds ?? 0
InitialTimeLeft(durationSeconds) == IF durationSeconds = NULL THEN 0 ELSE durationSeconds

\* the second effect sets the interval unless (!isRunning || !durationSeconds)
IntervalIsSet(durationSeconds, isRunning) ==
  isRunning /\ durationSeconds # NULL /\ durationSeconds # 0

\* the interval's update without the floor at 0
decrementUnbounded(prev) == prev - 1

\* (prev) => Math.max(prev - 1, 0)
decrement(prev) == IF prev - 1 > 0 THEN prev - 1 ELSE 0

CountdownInit ==
  /\ ServerUnused
  /\ reqs = <<>>
  /\ runner = <<>>
  /\ \E d \in Durations, running \in BOOLEAN :
       sc = [durationSeconds |-> d, isRunning |-> running, timeLeft |-> InitialTimeLeft(d),
             interval |-> IntervalIsSet(d, running), elapsed |-> 0]

\* a render with another isRunning: the second effect is cleaned up and runs again
SetRunning(running) ==
  /\ running # sc.isRunning
  /\ sc' = [sc EXCEPT !.isRunning = running,
                      !.interval = IntervalIsSet(sc.durationSeconds, running)]
  /\ UNCHANGED <<now, quizzes, questions, attempts, answers, audit_logs, res, reqs, runner>>

\* a render with another durationSeconds: both effects run again
SetDuration(d) ==
  /\ d # sc.durationSeconds
  /\ sc' = [sc EXCEPT !.durationSeconds = d, !.timeLeft = InitialTimeLeft(d),
                      !.interval = IntervalIsSet(d, sc.isRunning), !.elapsed = 0]
  /\ UNCHANGED <<now, quizzes, questions, attempts, answers, audit_logs, res, reqs, runner>>

\* a second passes with the interval set: its callback runs
IntervalFires ==
  /\ sc.interval
  /\ now <= MaxDuration
  /\ now' = now + 1
  /\ sc' = [sc EXCEPT !.timeLeft = decrement(sc.timeLeft), !.elapsed = @ + 1]
  /\ UNCHANGED <<quizzes, questions, attempts, answers, audit_logs, res, reqs, runner>>

\* a second passes with no interval set
SecondPasses ==
  /\ ~sc.interval
  /\ now <= MaxDuration
  /\ now' = now + 1
  /\ UNCHANGED <<quizzes, questions, attempts, answers, audit_logs, res, reqs, runner, sc>>

CountdownNext ==
  \/ \E running \in BOOLEAN : SetRunning(running)
  \/ \E d \in Durations : SetDuration(d)
  \/ IntervalFires
  \/ SecondPasses

CountdownSpec == CountdownInit /\ [][CountdownNext]_vars

\* timeLeft is the duration less the seconds elapsed while running, and 0
\* once the duration has elapsed
CountsDown ==
  (sc.durationSeconds # NULL /\ sc.durationSeconds > 0) =>
    /\ sc.timeLeft >= 0
    /\ sc.elapsed = 0 => sc.timeLeft = sc.durationSeconds
    /\ sc.elapsed < sc.durationSeconds => sc.timeLeft = sc.durationSeconds - sc.elapsed
    /\ sc.elapsed >= sc.durationSeconds => sc.timeLeft = 0

\* C31: with a duration d > 0 the countdown starts at d, decreases by exactly
\* 1 per second that elapses while it is running, never goes below 0 and is 0
\* once d seconds have elapsed; while it is not running (and the duration
\* stays the same) timeLeft does not change.
C31_CountsDownToZero ==
  [][ /\ CountsDown'
      /\ (sc.interval /\ sc'.elapsed = sc.elapsed + 1 /\ sc.timeLeft > 0) =>
           sc'.timeLeft = sc.timeLeft - 1
      /\ (~sc.isRunning /\ sc'.durationSeconds = sc.durationSeconds) =>
           sc'.timeLeft = sc.timeLeft
    ]_vars

\* C31's case: the test's countdown of 3 seconds has reached 0 after three
\* seconds of running and one second stopped.
C31_Witness ==
  /\ sc.durationSeconds = 3
  /\ sc.isRunning
  /\ sc.elapsed = 3
  /\ now = 4
  /\ sc.timeLeft = 0


\* a detail of an error response names a field of the document and says
\* what is wrong with it
CarriesFieldAndMessage(response) ==
  /\ response.details # <<>>
  /\ \A i \in 1..Len(response.details) :
       /\ response.details[i].message # ""
       /\ response.details[i].field # ""

\* C32: a create or import request whose document fails schema validation
\* is answered 400 validation_error with details that each carry a field
\* path and a message, and creates no quiz, question or option row.
C32_InvalidDocumentRejected ==
  [][ \A body \in ManagePayloads :
        (/\ res'.op \in {"quiz_create", "quiz_import"}
         /\ ~safeParse(body).success
         /\ \E u \in Users : CreateQuiz(u, body, res'.op)) =>
          /\ res'.status = 400
          /\ res'.code = "validation_error"
          /\ CarriesFieldAndMessage(res')
          /\ quizzes' = quizzes
          /\ questions' = questions
    ]_vars

\* C32's case: the import test's document was refused, naming the required
\* flag of its first question.
C32_Witness ==
  /\ res.op = "quiz_import"
  /\ res.status = 400
  /\ \E i \in 1..Len(res.details) :
       res.details[i] = [message |-> "Expected boolean, received string",
                         field |-> "questions.0.required"]
  /\ quizzes = <<>>



(***************************************************************************)
(* ConcAnswerSpec: the steps of ConcSpec with answer requests arriving     *)
(* between the steps of the submit requests in flight; the bodies are the  *)
(* required question answered and nothing answered.                        *)
(***************************************************************************)
ConcAnswerNext ==
  \/ Tick
  \/ \E u \in Users, z \in QuizIds : StartAttempt(u, z)
  \/ \E u \in Users, a \in AttemptIds, payload \in AccessSubmitPayloads : Receive(u, a, payload)
  \/ \E r \in RequestIds : ReadAttempt(r)
  \/ \E r \in RequestIds : FetchAndGrade(r)
  \/ \E r \in RequestIds : UpdateAttempt(r)
  \/ \E r \in RequestIds : DeleteStep(r)
  \/ \E r \in RequestIds : InsertStep(r)
  \/ \E r \in RequestIds : AuditStep(r)
  \/ \E r \in RequestIds : RespondOk(r)
  \/ \E r \in RequestIds : Threw(r)
  \/ \E u \in Users, a \in AttemptIds, entries \in AccessAnswerPayloads :
       RecordAnswer(u, a, entries)

ConcAnswerSpec == Init /\ [][ConcAnswerNext]_vars

\* SUM(earned_points) over a set of answer rows of the table, NULL counting 0
RECURSIVE EarnedSum(_)
EarnedSum(rows) ==
  IF rows = {} THEN 0
  ELSE LET row == CHOOSE r \in rows : TRUE
       IN  (IF row.earned_points = NULL THEN 0 ELSE answers[row] * row.earned_points)
             + EarnedSum(rows \ {row})

\* the stored outcomes of attempt a agree with its stored score
OutcomesMatchScore(a) ==
  /\ EarnedSum(RowsOfAttempt(answers, a)) = attempts[a].score
  /\ \A i \in 1..Len(questions[attempts[a].quiz_id]) :
       LET rows == RowsOf(answers, a, questions[attempts[a].quiz_id][i].id)
       IN  /\ Cardinality(rows) = 1
           /\ \A row \in rows : answers[row] = 1 /\ row.is_correct # Null

\* C33: in every reachable state, under any interleaving of submit and
\* answer handler steps on the same attempt, an attempt with a stored score
\* has stored outcomes of the same grading: its earned_points sum to the
\* score and each question of the quiz has one graded answer row.
C33_ScoreMatchesOutcomes ==
  \A a \in DOMAIN attempts : attempts[a].score # NULL => OutcomesMatchScore(a)

\* the same with every request in flight answered: what is left stored
AtRestScoreMatchesOutcomes ==
  (\A r \in RequestIds : reqs[r].pc = "done") => C33_ScoreMatchesOutcomes



\* the answer row a submit stores for question q of attempt a, graded from
\* the answers of the request alone
RowFromPayload(a, q, payload) ==
  LET answer == Coalesce(payload[q.id], Null)
      correct == isCorrectAttempt(q, answer)
  IN  AnswerRow(a, q.id, answer, Bool(correct), IF correct THEN PointsOf(q) ELSE 0)

\* C34: the required-answer gate and the grading of a submit use only the
\* answers of the submit request, never the answers stored by earlier answer
\* requests; after a successful submit the answer rows of the attempt are
\* exactly the graded answers of the request, one row per quiz question.
C34_SubmitUsesPayloadOnly ==
  [][ \A a \in DOMAIN attempts : \A payload \in AccessSubmitPayloads :
        (res'.op = "submit" /\ SubmitAttempt(attempts[a].user_id, a, payload)) =>
          LET qs == questions[attempts[a].quiz_id]
              enforced == quizzes[attempts[a].quiz_id].settings_json.enforceRequiredBeforeSubmit
              misses == \E i \in 1..Len(qs) : qs[i].required /\ IsMissing(payload[qs[i].id])
          IN  /\ res'.status = (IF enforced # "false" /\ misses THEN 400 ELSE 200)
              /\ res'.status = 400 => answers' = answers
              /\ res'.status = 200 =>
                   /\ Cardinality(RowsOfAttempt(answers', a)) = Len(qs)
                   /\ \A i \in 1..Len(qs) :
                        /\ RowFromPayload(a, qs[i], payload) \in DOMAIN answers'
                        /\ answers'[RowFromPayload(a, qs[i], payload)] = 1
                   /\ attempts'[a].score
                        = SumSeq([i \in 1..Len(qs) |->
                                    RowFromPayload(a, qs[i], payload).earned_points])
    ]_vars

\* C34's case: a submit that answers nothing has just been refused for the
\* required question although the attempt has a stored answer to it.
C34_Witness ==
  /\ res = Response("submit", 400, "missing_required")
  /\ \E a \in DOMAIN attempts :
       /\ attempts[a].submitted_at = NULL
       /\ \E row \in RowsOfAttempt(answers, a) :
            /\ row.answer_json = Str(<<"A">>)
            /\ \E i \in 1..Len(questions[attempts[a].quiz_id]) :
                 /\ questions[attempts[a].quiz_id][i].id = row.question_id
                 /\ questions[attempts[a].quiz_id][i].required



(***************************************************************************)
(* ResultsSpec: the attempt API together with the owner's PUT and publish  *)
(* on the quiz of the attempts.  sc.questionIds counts the question ids    *)
(* given out so far: randomUUID() never gives an id twice, so re-created   *)
(* questions get the numbers that follow.                                  *)
(***************************************************************************)
MaxUpdates == 2

\* the question ids of Init and of the questions re-created by the updates
ResultQuestionIds == 1..(2 + MaxUpdates)

\* the bodies of PUT: the RBAC test's quiz, public and enforcing nothing, and
\* the import test's document
ResultsPayloads ==
  { [QuizDoc(Undef, Str(<<"Draft quiz">>),
             Docs(<< QuestionDoc(Undef, "true_false", Undef, Bool(TRUE), Undef, Undef) >>))
       EXCEPT !.visibility = Str(<<"public">>), !.enforceRequiredBeforeSubmit = e] :
      e \in {Undef, Bool(FALSE)} }
    \cup {BadQuiz}

\* the answers of a submit request: one question answered 'A' or true, or none
ResultsSubmitPayloads ==
  { [q \in ResultQuestionIds |-> IF q = k THEN v ELSE Undef] :
      k \in ResultQuestionIds, v \in {Str(<<"A">>), Bool(TRUE)} }
    \cup { [q \in ResultQuestionIds |-> Undef] }

ResultsInit ==
  /\ ServerIdle
  /\ \E cfg \in QuizConfigs :
       /\ quizzes = [z \in QuizIds |-> cfg.quiz]
       /\ questions = [z \in QuizIds |-> cfg.questions]
  /\ reqs = <<>>
  /\ runner = <<>>
  /\ sc = [questionIds |-> 2]

\* the settings_json object the PUT handler writes
settingsJson(data) ==
  [timeLimitSeconds |-> data.timeLimitSeconds,
   passingScore |-> data.passingScore,
   allowSkip |-> data.allowSkip.b,
   showQuestionList |-> data.showQuestionList,
   enforceRequiredBeforeSubmit |-> IF data.enforceRequiredBeforeSubmit.b THEN "true" ELSE "false"]

\* the questions row (with its options rows) inserted for a parsed question
questionRow(question, questionId) ==
  [id |-> questionId, type |-> question.type, required |-> question.required,
   points |-> question.points, options |-> question.options,
   correctAnswer |-> question.correctAnswer, correctAnswers |-> question.correctAnswers,
   acceptedAnswers |-> question.acceptedAnswers]

\* DELETE FROM questions WHERE quiz_id = $1, as it acts on answers:
\* answers.question_id REFERENCES questions(id) ON DELETE CASCADE
CascadeAnswers(tbl, ids) ==
  LET kept == {r \in BagToSet(tbl) : r.question_id \notin ids} IN [r \in kept |-> tbl[r]]

\* PUT /quizzes/:id on the quiz of the attempts
PutQuiz(u, z, body) ==
  LET parse == safeParse(body)
      n == Len(parse.data.questions)
  IN  /\ IF ~parse.success
         THEN /\ res' = handleZodError("quiz_update", serverQuizErrors(body))
              /\ UNCHANGED <<quizzes, questions, answers, audit_logs, sc>>
         ELSE IF z \notin DOMAIN quizzes \/ quizzes[z].owner_id # u
         THEN /\ res' = Response("quiz_update", 404, "not_found")
              /\ UNCHANGED <<quizzes, questions, answers, audit_logs, sc>>
         ELSE /\ sc.questionIds + n <= 2 + MaxUpdates
              /\ quizzes' = [quizzes EXCEPT ![z].settings_json = settingsJson(parse.data),
                                            ![z].visibility = parse.data.visibility.s[1]]
              /\ answers' = CascadeAnswers(answers, {questions[z][i].id : i \in 1..Len(questions[z])})
              /\ questions' = [questions EXCEPT ![z] =
                                 [i \in 1..n |-> questionRow(parse.data.questions[i],
                                                             sc.questionIds + i)]]
              /\ sc' = [questionIds |-> sc.questionIds + n]
              /\ audit_logs' = AuditLog(audit_logs, "quiz_update", z)
              /\ res' = Response("quiz_update", 200, "ok")
      /\ UNCHANGED <<now, attempts, reqs, runner>>

ResultsNext ==
  \/ Tick
  \/ \E u \in Users, z \in QuizIds : StartAttempt(u, z)
  \/ \E u \in Users, a \in AttemptIds, payload \in ResultsSubmitPayloads : SubmitAttempt(u, a, payload)
  \/ \E u \in Users, a \in AttemptIds : GetAttempt(u, a)
  \/ \E u \in Users, z \in QuizIds, body \in ResultsPayloads : PutQuiz(u, z, body)
  \/ \E u \in Users, z \in QuizIds : PublishQuiz(u, z)

ResultsSpec == ResultsInit /\ [][ResultsNext]_vars

\* the stored results of a submitted attempt: its row and its answer rows
StoredResults(a) == <<attempts[a], RowsOfAttempt(answers, a)>>

\* C35: the stored score, percentage, passed and per-question outcomes of a
\* SUBMITTED attempt are not changed by the quiz owner's later update (PUT)
\* or publish of its quiz.
C35_ResultsSurviveQuizChanges ==
  [][ \A a \in DOMAIN attempts :
        (/\ attempts[a].submitted_at # NULL
         /\ res'.op \in {"quiz_update", "quiz_publish"}) =>
          StoredResults(a)' = StoredResults(a)
    ]_vars



(***************************************************************************)
(* RetrySpec: the QuizRunner of RunnerSpec with room on the server for the *)
(* attempt that Retry Quiz and Start Quiz create after the first one.      *)
(***************************************************************************)
MaxRunnerAttempts == 2

RetryNext ==
  \/ HandleStartUpTo(MaxRunnerAttempts)
  \/ \E value \in UNION {InputValues(q) : q \in {Question1, Question2}} : HandleAnswerChange(value)
  \/ HandlePrevious
  \/ HandleNext
  \/ \E index \in 0..(MaxQuestions - 1) : index < Len(clientQuiz.questions) /\ HandleListClick(index)
  \/ HandleSubmit
  \/ CountdownTick
  \/ HandleRestart

RetrySpec == RunnerInit /\ [][RetryNext]_vars

\* the runner has just started an attempt after Retry Quiz
StartedAgain == runner.started /\ runner.attemptId # NULL /\ runner.attemptId > 1

\* C36: after Retry followed by Start the participant works on the new
\* attempt id that start returned, with no answers and the countdown back at
\* timeLimitSeconds, and the runner does not show results before that
\* attempt is submitted or its time limit has run out, also after a timeout.
C36_RetryStartsAfresh ==
  [][ (~runner.started /\ runner'.started /\ Len(attempts) >= 1) =>
        /\ Len(attempts') = Len(attempts) + 1
        /\ runner'.attemptId = Len(attempts')
        /\ runner'.answers = [q \in QuestionIds |-> Undef]
        /\ HasTimeLimit => runner'.timeLeft = clientQuiz.timeLimitSeconds
        /\ ~runner'.submitted
    ]_vars



\* the request was refused and the quizzes and their questions are as before
RefusedQuizUnchanged ==
  /\ res'.status >= 400
  /\ quizzes' = quizzes
  /\ questions' = questions

\* C37: an update, publish or delete of a quiz by a user who is not its
\* owner is refused and leaves the quiz, its questions and its status as
\* they were; a quiz is created as a draft, becomes published only by its
\* owner's publish call, and no operation takes a published quiz back to
\* draft.
C37_OnlyOwnerManages ==
  [][ /\ RefusedQuizUnchanged
           \/ \A z \in DOMAIN quizzes : \A u \in Users \ {quizzes[z].owner_id} :
                /\ res'.op = "quiz_update" => \A body \in ManagePayloads : ~UpdateQuiz(u, z, body)
                /\ res'.op = "quiz_publish" => ~PublishQuiz(u, z)
                /\ res'.op = "quiz_delete" => ~DeleteQuiz(u, z)
      /\ \A z \in DOMAIN quizzes' \ DOMAIN quizzes : quizzes'[z].status = "draft"
      /\ \A z \in DOMAIN quizzes \cap DOMAIN quizzes' :
           /\ quizzes[z].status = "published" => quizzes'[z].status = "published"
           /\ quizzes'[z].status # quizzes[z].status =>
                /\ quizzes'[z].status = "published"
                /\ PublishQuiz(quizzes[z].owner_id, z)
    ]_vars

\* C37's case: another user's publish call on the owner's draft has just been
\* refused, and the quiz is still a draft.
C37_Witness ==
  /\ res = Response("quiz_publish", 404, "not_found")
  /\ \E z \in DOMAIN quizzes : quizzes[z].status = "draft"



\* a score result is within its ranges and lists the questions qs in order
WithinRanges(result, qs) ==
  /\ 0 <= result.totalScore
  /\ result.totalScore <= result.maxScore
  /\ 0 <= result.percentage
  /\ result.percentage <= 100
  /\ Len(result.perQuestion) = Len(qs)
  /\ \A i \in 1..Len(qs) : result.perQuestion[i].questionId = qs[i].id

\* C38: for every quiz whose questions all have points >= 1 (an absent
\* points field counting 1) and every answer map, the score results of
\* scoreAttempt and scoreQuiz satisfy 0 <= totalScore <= maxScore and
\* 0 <= percentage <= 100, and perQuestion has one entry per question of the
\* quiz, in the quiz's question order.
C38_ScoreWithinRanges ==
  (sc.phase = "scored" /\ \A i \in 1..Len(sc.questions) : PointsOf(sc.questions[i]) >= 1) =>
    /\ WithinRanges(sc.server, sc.questions)
    /\ WithinRanges(sc.client, sc.questions)

\* C38's case: two questions, the first answered correctly and the second
\* not, scored 2 of 3 points and 67 percent by the server.
C38_Witness ==
  /\ sc.phase = "scored"
  /\ Len(sc.questions) = 2
  /\ sc.server.perQuestion[1].isCorrect
  /\ ~sc.server.perQuestion[2].isCorrect
  /\ sc.server.totalScore = 2
  /\ sc.server.maxScore = 3
  /\ sc.server.percentage = 67

=============================================================================
